--------------------- MODULE ClientAndBootstrapProofs ---------------------
(***************************************************************************)
(* Proofs about the two ends of a bootstrap.                               *)
(*                                                                         *)
(* About BootstrapServer, for any devices and any file: types, that an     *)
(* endpoint waits only for a request under way, and the order of the       *)
(* commands.                                                               *)
(*                                                                         *)
(* About Client, for any servers, Server Object instances, timings and     *)
(* packets: types, that a registration is given up after the requests it   *)
(* was given, that no server outlives a bootstrap that has rewritten it,   *)
(* and that updates are sent in time.                                      *)
(*                                                                         *)
(* The handlers of Client are operators on contexts, so each has a lemma   *)
(* that says what it does to a sound context; the folds over servers and   *)
(* requests go by induction on their length; the lemmas of the actions,    *)
(* then of the theorems, cite those of the handlers.                       *)
(***************************************************************************)
EXTENDS BootstrapServer, Client, SequenceTheorems, FiniteSetTheorems,
        WellFoundedInduction, TLAPS

\* What CHOOSE picks for the first of a set of numbers.
LEMMA FirstOf ==
    ASSUME NEW S \in SUBSET Nat, S # {}
    PROVE  \E k \in S : \A j \in S : k <= j
<1>1. PICK k \in S : \A j \in S : ~(<<j, k>> \in OpToRel(<, Nat))
    BY NatLessThanWellFounded, WFMin, Zenon
<1>2. \A j \in S : ~(j < k)
    BY <1>1 DEF OpToRel
<1>3. \A j \in S : k <= j
    BY <1>2
<1>4. QED
    BY <1>3

-----------------------------------------------------------------------------
(* BootstrapServer *)

LEMMA CommandListType ==
    ASSUME TypeOK, NEW d \in Devices
    PROVE  CommandList(d) \in Seq(Operation)
<1>1. CASE Sections(d) = {}
    BY <1>1 DEF CommandList
<1>2. CASE Sections(d) # {}
    <2> DEFINE Info == [name : Devices \cup {NoName}, commandList : Seq(Operation)]
    <2>1. endpointList \in Seq(Info)
        BY ListsAssumption DEF ListsAssumption, TypeOK
    <2>2. Sections(d) \in SUBSET Nat
        BY <2>1 DEF Sections
    <2>3. Section(d) \in Sections(d)
        BY <1>2, <2>2, FirstOf DEF Section
    <2>4. Section(d) \in DOMAIN endpointList
        BY <2>3 DEF Sections
    <2>5. PICK i \in DOMAIN endpointList : i = Section(d)
        BY <2>4
    <2>. HIDE DEF Info
    <2>6. endpointList[i] \in Info
        BY <2>1, <2>5
    <2>7. CommandList(d) = endpointList[i].commandList
        BY <1>2, <2>5 DEF CommandList
    <2>8. QED
        BY <2>6, <2>7 DEF Info
<1>3. QED
    BY <1>1, <1>2

-----------------------------------------------------------------------------
(* Types *)

LEMMA ToldType ==
    ASSUME NEW d \in Devices, NEW e \in Endpoint, NEW code, NEW tells \in Versions
    PROVE  Told(d, e, code, tells) \in Endpoint
BY DEF Told, Endpoint, Statuses

LEMMA ForwardType ==
    ASSUME TypeOK, NEW d \in Devices, NEW e \in Endpoint
    PROVE  Forward(d, e) \in Nat
<1> DEFINE from == IF e.status = "OK" THEN e.cmd + 1 ELSE e.cmd
           stops == {k \in from..Len(CommandList(d)) : ~Skipped(d, e, k)}
<1>1. Len(CommandList(d)) \in Nat
    BY CommandListType
<1>2. from \in Nat
    BY DEF Endpoint
<1>3. stops \in SUBSET Nat
    BY <1>1, <1>2
<1>4. CASE stops = {}
    BY <1>1, <1>4 DEF Forward
<1>5. CASE stops # {}
    <2>1. \E k \in stops : \A j \in stops : k <= j
        BY <1>3, <1>5, FirstOf
    <2>2. (CHOOSE k \in stops : \A j \in stops : k <= j) \in stops
        BY <2>1
    <2>3. QED
        BY <1>3, <1>5, <2>2 DEF Forward
<1>6. QED
    BY <1>4, <1>5

LEMMA TurnType ==
    ASSUME TypeOK, NEW d \in Devices, NEW e \in Endpoint
    PROVE  Turn(d, e) \in Endpoint
<1> DEFINE c == Clean(d, e)
           f == [c EXCEPT !.status = "NEW", !.cmd = Forward(d, c)]
<1>1. c \in Endpoint
    BY DEF Clean, Gone, Endpoint, Statuses, Versions
<1>2. Forward(d, c) \in Nat
    BY <1>1, ForwardType
<1>. HIDE DEF c
<1>3. f \in Endpoint
    BY <1>1, <1>2 DEF Endpoint, Statuses
<1>4. SendCommand(d, f) \in Endpoint
    BY <1>3 DEF SendCommand, Endpoint, Statuses
<1>5. QED
    BY <1>1, <1>4 DEF Turn, c

LEMMA StepOnType ==
    ASSUME TypeOK, NEW lost
    PROVE  StepOn(lost) \in [Devices -> Endpoint]
<1>1. \A d \in Devices : endpoints[d] \in Endpoint
    BY DEF TypeOK
<1>2. \A d \in Devices : Told(d, endpoints[d], "error", "missing") \in Endpoint
    BY <1>1, ToldType DEF Versions
<1>3. QED
    BY <1>1, <1>2 DEF StepOn

LEMMA EndTurnType ==
    ASSUME TypeOK, NEW eps \in [Devices -> Endpoint], NEW left \in SUBSET transactions,
           EndTurn(eps, left)
    PROVE  /\ endpoints' \in [Devices -> Endpoint] /\ transactions' \subseteq Transaction
           /\ copies' \in [Devices -> SUBSET (Nat \X Nat)]
<1> DEFINE after == [d \in Devices |-> Turn(d, eps[d])]
<1>1. \A d \in Devices : Turn(d, eps[d]) \in Endpoint
    BY TurnType
<1>2. after \in [Devices -> Endpoint]
    BY <1>1
<1>3. endpoints' = after
    BY DEF EndTurn
<1>. HIDE DEF after
<1>4. ASSUME NEW d \in Devices
      PROVE  [device |-> d, request |-> after[d].request, cmd |-> after[d].cmd, answer |-> "none"] \in Transaction
    BY <1>2 DEF Endpoint, Transaction
<1>5. \A x \in transactions' :
         x \in left \/ \E d \in Devices :
             x = [device |-> d, request |-> after[d].request, cmd |-> after[d].cmd, answer |-> "none"]
    BY DEF EndTurn, after
<1>6. ASSUME NEW d \in Devices
      PROVE  copies[d] \cup {Of(x) : x \in {y \in transactions \ left : y.device = d}} \in SUBSET (Nat \X Nat)
    <2>1. \A x \in transactions : Of(x) \in Nat \X Nat
        BY DEF TypeOK, Transaction, Of
    <2>2. QED
        BY <2>1 DEF TypeOK
<1>7. copies' \in [Devices -> SUBSET (Nat \X Nat)]
    BY <1>6 DEF EndTurn
<1>8. QED
    BY <1>2, <1>3, <1>4, <1>5, <1>7 DEF TypeOK

LEMMA NewEndpointType ==
    ASSUME NEW n \in Nat, NEW writable \in BOOLEAN PROVE NewEndpoint(n, writable) \in Endpoint
BY DEF NewEndpoint, Endpoint, Statuses, Versions

LEMMA InitType == Init => TypeOK
<1> SUFFICES ASSUME Init PROVE TypeOK
    OBVIOUS
<1>1. Gone \in Endpoint
    BY DEF Gone, Endpoint, Statuses, Versions
<1>2. <<>> \in Seq(Nat \X Nat \X BOOLEAN)
    OBVIOUS
<1>3. QED
    BY <1>1, <1>2 DEF Init, TypeOK

LEMMA NextType == TypeOK /\ [Next]_vars => TypeOK'
<1> SUFFICES ASSUME TypeOK, [Next]_vars PROVE TypeOK'
    OBVIOUS
<1>1. ASSUME NEW lost \in SUBSET transactions, Idle(lost) PROVE TypeOK'
    <2>1. /\ endpoints' \in [Devices -> Endpoint] /\ transactions' \subseteq Transaction
          /\ copies' \in [Devices -> SUBSET (Nat \X Nat)]
        BY <1>1, StepOnType, EndTurnType DEF Idle
    <2>2. QED
        BY <1>1, <2>1 DEF Idle, TypeOK
<1>2. ASSUME NEW lost \in SUBSET transactions, NEW d \in Devices, NEW writable \in BOOLEAN,
             Request(d, writable, lost)
      PROVE  TypeOK'
    <2>1. requests + 1 \in Nat /\ requests' \in Nat /\ crossed' \subseteq Nat
        <3>1. requests \in Nat /\ crossed \subseteq Nat
            BY DEF TypeOK
        <3>2. requests' = requests \/ requests' = requests + 1
            BY <1>2, Zenon DEF Request
        <3>3. crossed' = crossed \/ crossed' = crossed \cup {requests + 1}
            BY <1>2, Zenon DEF Request
        <3>4. requests + 1 \in Nat
            BY <3>1
        <3>5. requests' \in Nat
            BY <3>1, <3>2, <3>4
        <3>6. crossed' \subseteq Nat
            BY <3>1, <3>3, <3>4, Zenon
        <3>7. QED
            BY <3>4, <3>5, <3>6
    <2>2. NewEndpoint(requests + 1, writable) \in Endpoint
        BY <2>1, NewEndpointType
    <2>3. [StepOn(lost) EXCEPT ![d] = NewEndpoint(requests + 1, writable)] \in [Devices -> Endpoint]
        BY <2>2, StepOnType
    <2>4. /\ endpoints' \in [Devices -> Endpoint] /\ transactions' \subseteq Transaction
          /\ copies' \in [Devices -> SUBSET (Nat \X Nat)]
        <3>1. PICK eps \in [Devices -> Endpoint] : EndTurn(eps, transactions \ lost)
            BY <1>2, <2>3, StepOnType, Zenon DEF Request
        <3>2. QED
            BY <3>1, EndTurnType
    <2>5. QED
        BY <1>2, <2>1, <2>4 DEF Request, TypeOK
<1>3. ASSUME NEW lost \in SUBSET transactions, NEW x \in transactions, NEW tells \in Versions,
             Answered(x, tells, lost)
      PROVE  TypeOK'
    <2> DEFINE eps == [StepOn(lost) EXCEPT ![x.device] = Told(x.device, @, x.answer, tells)]
    <2>1. x.device \in Devices
        BY DEF TypeOK, Transaction
    <2>2. StepOn(lost)[x.device] \in Endpoint
        BY <2>1, StepOnType
    <2>3. Told(x.device, StepOn(lost)[x.device], x.answer, tells) \in Endpoint
        BY <2>1, <2>2, ToldType
    <2>4. eps \in [Devices -> Endpoint]
        BY <2>1, <2>3, StepOnType
    <2>5. EndTurn(eps, transactions \ (lost \cup {x}))
        BY <1>3 DEF Answered
    <2>. HIDE DEF eps
    <2>6. /\ endpoints' \in [Devices -> Endpoint] /\ transactions' \subseteq Transaction
          /\ copies' \in [Devices -> SUBSET (Nat \X Nat)]
        BY <2>4, <2>5, EndTurnType
    <2>7. QED
        BY <1>3, <2>6 DEF Answered, TypeOK
<1>4. ASSUME NEW x \in transactions, NEW ok \in BOOLEAN, Perform(x, ok) PROVE TypeOK'
    <2>1. x \in Transaction /\ x.device \in Devices
        BY DEF TypeOK, Transaction
    <2>2. (IF ok THEN Success(Kind(x.device, x.cmd)) ELSE "error") \in Codes
        BY DEF Success, Codes
    <2>3. [x EXCEPT !.answer = IF ok THEN Success(Kind(x.device, x.cmd)) ELSE "error"] \in Transaction
        BY <2>1, <2>2 DEF Transaction
    <2>4. transactions' \subseteq Transaction
        BY <1>4, <2>3 DEF Perform, TypeOK
    <2>5. <<x.request, x.cmd, FALSE>> \in Nat \X Nat \X BOOLEAN
        BY <2>1 DEF Transaction
    <2>6. Append(performed[x.device], <<x.request, x.cmd, FALSE>>) \in Seq(Nat \X Nat \X BOOLEAN)
        BY <2>1, <2>5 DEF TypeOK
    <2>7. performed' \in [Devices -> Seq(Nat \X Nat \X BOOLEAN)]
        BY <1>4, <2>1, <2>6 DEF Perform, TypeOK
    <2>8. QED
        BY <1>4, <2>4, <2>7 DEF Perform, TypeOK
<1>5. ASSUME NEW d \in Devices, NEW p \in copies[d], PerformLate(d, p) PROVE TypeOK'
    <2>1. p \in Nat \X Nat
        BY DEF TypeOK
    <2>2. <<p[1], p[2], TRUE>> \in Nat \X Nat \X BOOLEAN
        BY <2>1
    <2>3. Append(performed[d], <<p[1], p[2], TRUE>>) \in Seq(Nat \X Nat \X BOOLEAN)
        BY <2>2 DEF TypeOK
    <2>4. performed' \in [Devices -> Seq(Nat \X Nat \X BOOLEAN)]
        BY <1>5, <2>3 DEF PerformLate, TypeOK
    <2>5. QED
        BY <1>5, <2>4 DEF PerformLate, TypeOK
<1>6. CASE UNCHANGED vars
    BY <1>6 DEF vars, TypeOK
<1>7. QED
    BY <1>1, <1>2, <1>3, <1>4, <1>5, <1>6 DEF Next

\* Endpoints, transactions and logs have their types, whatever the file says.
THEOREM TypeCorrect == Spec => []TypeOK
BY InitType, NextType, PTL DEF Spec

-----------------------------------------------------------------------------
(* Waiting *)

\* What makes AwaitsAnswer inductive: who waits is not past the last command.
Waits(d, e, list) ==
    e.status = "SENT" =>
        /\ ~AtEnd(d, e.cmd)
        /\ \E x \in list : x.device = d /\ x.request = e.request /\ x.cmd = e.cmd

Waiting == \A d \in Devices : Waits(d, endpoints[d], transactions)

\* Of what is told to an endpoint that waits, everything ends its waiting.
LEMMA ToldEndsWaiting ==
    ASSUME NEW d \in Devices, NEW e \in Endpoint, NEW code, NEW tells \in Versions,
           e.status = "SENT" => ~AtEnd(d, e.cmd)
    PROVE  Told(d, e, code, tells).status # "SENT"
BY DEF Told, Endpoint

LEMMA TurnWaits ==
    ASSUME TypeOK, NEW d \in Devices, NEW e \in Endpoint
    PROVE  /\ Turn(d, e).status = "SENT" /\ e.status # "SENT" =>
                 ~AtEnd(d, Turn(d, e).cmd) /\ Sendable(d, Turn(d, e))
           /\ Turn(d, e).status = "SENT" /\ e.status = "SENT" => Turn(d, e) = e
<1> DEFINE c == Clean(d, e)
           f == [c EXCEPT !.status = "NEW", !.cmd = Forward(d, c)]
<1>1. c \in Endpoint /\ (c = e \/ c.status = "GONE")
    BY DEF Clean, Gone, Endpoint, Statuses, Versions
<1>. HIDE DEF c
<1>2. CASE c.status \in {"OK", "NEW"}
    <2>1. Turn(d, e) = SendCommand(d, f)
        BY <1>2 DEF Turn, c
    <2>2. f.status = "NEW"
        BY <1>1 DEF Endpoint
    <2>3. f \in Endpoint
        BY <1>1, ForwardType DEF Endpoint, Statuses
    <2>. HIDE DEF f
    <2>4. SendCommand(d, f).status = "SENT" =>
             ~AtEnd(d, SendCommand(d, f).cmd) /\ Sendable(d, SendCommand(d, f))
        BY <2>2, <2>3 DEF SendCommand, Sendable, Endpoint
    <2>5. e.status # "SENT"
        BY <1>1, <1>2
    <2>6. QED
        BY <2>1, <2>4, <2>5
<1>3. CASE c.status \notin {"OK", "NEW"}
    BY <1>1, <1>3 DEF Turn, c
<1>4. QED
    BY <1>2, <1>3

\* A turn keeps who waits waiting for what is left, and sends what it says.
LEMMA EndTurnWaits ==
    ASSUME TypeOK, NEW eps \in [Devices -> Endpoint], NEW left \in SUBSET transactions,
           EndTurn(eps, left), UNCHANGED endpointList,
           \A d \in Devices : Waits(d, eps[d], left)
    PROVE  Waiting'
<1> DEFINE after == [d \in Devices |-> Turn(d, eps[d])]
<1>1. endpoints' = after /\ left \subseteq transactions'
    BY DEF EndTurn
<1>2. \A d \in Devices : CommandList(d)' = CommandList(d)
    BY DEF CommandList, Sections, Section
<1>3. ASSUME NEW d \in Devices, after[d].status = "SENT", eps[d].status = "SENT"
      PROVE  /\ ~AtEnd(d, after[d].cmd)
             /\ \E x \in transactions' :
                   x.device = d /\ x.request = after[d].request /\ x.cmd = after[d].cmd
    BY <1>1, <1>3, TurnWaits DEF Waits
<1>4. ASSUME NEW d \in Devices, after[d].status = "SENT", eps[d].status # "SENT"
      PROVE  /\ ~AtEnd(d, after[d].cmd)
             /\ \E x \in transactions' :
                   x.device = d /\ x.request = after[d].request /\ x.cmd = after[d].cmd
    <2>1. ~AtEnd(d, after[d].cmd) /\ Sendable(d, after[d])
        BY <1>4, TurnWaits
    <2> DEFINE x == [device |-> d, request |-> after[d].request, cmd |-> after[d].cmd, answer |-> "none"]
    <2>2. x \in transactions'
        BY <1>4, <2>1 DEF EndTurn
    <2>3. QED
        BY <2>1, <2>2
<1>. HIDE DEF after
<1>5. ASSUME NEW d \in Devices, after[d].status = "SENT"
      PROVE  ~AtEnd(d, after[d].cmd)
    BY <1>3, <1>4, <1>5 DEF AtEnd
<1>6. QED
    BY <1>1, <1>2, <1>3, <1>4, <1>5 DEF Waiting, Waits, AtEnd

LEMMA StepOnWaits ==
    ASSUME TypeOK, Waiting, NEW lost \in SUBSET transactions, NEW d \in Devices
    PROVE  Waits(d, StepOn(lost)[d], transactions \ lost)
<1>1. endpoints[d] \in Endpoint /\ Waits(d, endpoints[d], transactions)
    BY DEF TypeOK, Waiting
<1>2. CASE \E x \in lost : x.device = d
    BY <1>1, <1>2, ToldEndsWaiting DEF StepOn, Waits, Versions
<1>3. CASE ~\E x \in lost : x.device = d
    BY <1>1, <1>3 DEF StepOn, Waits
<1>4. QED
    BY <1>2, <1>3

LEMMA NextWaits == TypeOK /\ Waiting /\ [Next]_vars => Waiting'
<1> SUFFICES ASSUME TypeOK, Waiting, [Next]_vars PROVE Waiting'
    OBVIOUS
<1>1. ASSUME NEW lost \in SUBSET transactions, Idle(lost) PROVE Waiting'
    BY <1>1, StepOnType, StepOnWaits, EndTurnWaits DEF Idle
<1>2. ASSUME NEW lost \in SUBSET transactions, NEW d \in Devices, NEW writable \in BOOLEAN,
             Request(d, writable, lost)
      PROVE  Waiting'
    <2>1. CASE Sections(d) = {}
        BY <1>2, <2>1, StepOnType, StepOnWaits, EndTurnWaits DEF Request
    <2>2. CASE Sections(d) # {}
        <3> DEFINE n == NewEndpoint(requests + 1, writable)
                   eps == [StepOn(lost) EXCEPT ![d] = n]
        <3>1. requests + 1 \in Nat
            BY DEF TypeOK
        <3>2. n \in Endpoint /\ n.status # "SENT"
            BY <3>1, NewEndpointType DEF NewEndpoint
        <3>3. EndTurn(eps, transactions \ lost) /\ UNCHANGED endpointList
            BY <1>2, <2>2 DEF Request
        <3>. HIDE DEF n
        <3>4. eps \in [Devices -> Endpoint]
            BY <3>2, StepOnType
        <3>5. ASSUME NEW f \in Devices PROVE Waits(f, eps[f], transactions \ lost)
            BY <3>2, StepOnType, StepOnWaits DEF Waits
        <3>. HIDE DEF eps
        <3>6. QED
            BY <3>3, <3>4, <3>5, EndTurnWaits
    <2>3. QED
        BY <2>1, <2>2
<1>3. ASSUME NEW lost \in SUBSET transactions, NEW x \in transactions, NEW tells \in Versions,
             Answered(x, tells, lost)
      PROVE  Waiting'
    <2> DEFINE told == Told(x.device, StepOn(lost)[x.device], x.answer, tells)
               eps == [StepOn(lost) EXCEPT ![x.device] = told]
               left == transactions \ (lost \cup {x})
    <2>1. x.device \in Devices /\ StepOn(lost)[x.device] \in Endpoint
        BY StepOnType DEF TypeOK, Transaction
    <2>2. StepOn(lost)[x.device].status = "SENT" => ~AtEnd(x.device, StepOn(lost)[x.device].cmd)
        BY <2>1, StepOnWaits DEF Waits
    <2>3. told \in Endpoint /\ told.status # "SENT"
        BY <2>1, <2>2, ToldType, ToldEndsWaiting
    <2>4. EndTurn(eps, left) /\ UNCHANGED endpointList
        BY <1>3 DEF Answered
    <2>. HIDE DEF told
    <2>5. eps \in [Devices -> Endpoint]
        BY <2>1, <2>3, StepOnType
    <2>6. ASSUME NEW f \in Devices PROVE Waits(f, eps[f], left)
        <3>1. CASE f = x.device
            BY <2>1, <2>3, <3>1, StepOnType DEF Waits
        <3>2. CASE f # x.device
            <4>1. eps[f] = StepOn(lost)[f]
                BY <3>2, StepOnType
            <4>2. Waits(f, StepOn(lost)[f], transactions \ lost)
                BY StepOnWaits
            <4>3. QED
                BY <3>2, <4>1, <4>2 DEF Waits
        <3>3. QED
            BY <3>1, <3>2
    <2>. HIDE DEF eps
    <2>7. left \in SUBSET transactions
        OBVIOUS
    <2>. HIDE DEF left
    <2>8. QED
        BY <2>4, <2>5, <2>6, <2>7, EndTurnWaits
<1>4. ASSUME NEW x \in transactions, NEW ok \in BOOLEAN, Perform(x, ok) PROVE Waiting'
    <2> DEFINE y == [x EXCEPT !.answer = IF ok THEN Success(Kind(x.device, x.cmd)) ELSE "error"]
    <2>1. transactions' = (transactions \ {x}) \cup {y} /\ UNCHANGED <<endpoints, endpointList>>
        BY <1>4 DEF Perform
    <2>2. y.device = x.device /\ y.request = x.request /\ y.cmd = x.cmd
        BY DEF TypeOK, Transaction
    <2>. HIDE DEF y
    <2>3. ASSUME NEW d \in Devices PROVE Waits(d, endpoints[d], transactions')
        BY <2>1, <2>2 DEF Waiting, Waits
    <2>4. \A d \in Devices : CommandList(d)' = CommandList(d)
        BY <2>1 DEF CommandList, Sections, Section
    <2>5. QED
        BY <2>1, <2>3, <2>4 DEF Waiting, Waits, AtEnd
<1>5. CASE UNCHANGED <<endpointList, endpoints, transactions>>
    BY <1>5 DEF Waiting, Waits, AtEnd, CommandList, Sections, Section
<1>6. QED
    BY <1>1, <1>2, <1>3, <1>4, <1>5 DEF Next, PerformLate, vars

\* An endpoint whose command was sent waits for that command's own request: the
\* answers of earlier requests may come in its place, but it is never left
\* waiting for nothing (prv_bootstrap_callback, prv_send_command).
THEOREM NeverLeftWaiting == Spec => []AwaitsAnswer
<1>1. Init => Waiting
    BY DEF Init, Waiting, Waits, Gone
<1>2. Waiting => AwaitsAnswer
    BY DEF Waiting, Waits, AwaitsAnswer
<1>3. QED
    BY <1>1, <1>2, NextWaits, TypeCorrect, PTL DEF Spec

-----------------------------------------------------------------------------
(* Order *)

\* The order of commands, told by their request's number and their place.
Upto(p, q) == p[1] < q[1] \/ (p[1] = q[1] /\ p[2] <= q[2])
At(d) == <<endpoints[d].request, endpoints[d].cmd>>
There(d) == endpoints[d].status # "GONE"
Done(d) == {<<performed[d][i][1], performed[d][i][2]>> : i \in DOMAIN performed[d]}

\* What a device has done, and what it may do late.
Passed(d) == Done(d) \cup copies[d]

\* The deletes and writes before command q have been done.
Complete(d, q) == \A i \in 1..(q[2] - 1) : Kind(d, i) \in Changes => <<q[1], i>> \in Done(d)

\* Nothing has a number that is still to be given.
NumbersOK ==
    /\ \A x \in transactions : x.request <= requests
    /\ \A d \in Devices : endpoints[d].request <= requests
    /\ \A d \in Devices : \A p \in Passed(d) : p[1] <= requests

\* A request that crossed no other has one command under way, no older one is,
\* and its endpoint waits for it.
AloneOK ==
    /\ \A x, y \in transactions :
          x.device = y.device /\ x.request \notin crossed => x = y \/ x.request < y.request
    /\ \A x \in transactions :
          There(x.device) /\ endpoints[x.device].request \notin crossed =>
             endpoints[x.device].status = "SENT" /\ Of(x) = At(x.device)

\* Its commands are not past its endpoint, nor those that are done or over past
\* what is under way, or is to be sent.
AheadOK ==
    /\ \A x \in transactions :
          There(x.device) /\ x.request \notin crossed => Upto(Of(x), At(x.device))
    /\ \A d \in Devices : \A p \in Passed(d) : p[1] \notin crossed =>
          /\ There(d) => Upto(p, At(d))
          /\ \A x \in transactions : x.device = d => Upto(p, Of(x))

\* What is under way, over or to be sent comes after all that had to be done
\* before, and an answer of success after what it tells of; a command that was answered
\* is left behind in the same turn.
CompleteOK ==
    /\ \A x \in transactions : x.request \notin crossed => Complete(x.device, Of(x))
    /\ \A d \in Devices : \A p \in copies[d] : p[1] \notin crossed => Complete(d, p)
    /\ \A d \in Devices : There(d) /\ endpoints[d].request \notin crossed => Complete(d, At(d))
    /\ \A x \in transactions : x.answer \notin {"none", "error"} => Of(x) \in Done(x.device)
    /\ \A d \in Devices : endpoints[d].status # "OK"

\* DoneInOrder, in the places of what was done.
InOrder ==
    \A d \in Devices : \A i, j \in DOMAIN performed[d] :
        i < j /\ performed[d][i][1] \notin crossed /\ ~performed[d][j][3] =>
            Upto(performed[d][i], performed[d][j])
ChangesFirst ==
    \A d \in Devices : \A j \in DOMAIN performed[d] :
        performed[d][j][1] \notin crossed =>
            \A k \in 1..(performed[d][j][2] - 1) :
                Kind(d, k) \in Changes =>
                    \E i \in DOMAIN performed[d] :
                        i < j /\ performed[d][i][1] = performed[d][j][1] /\ performed[d][i][2] = k

OrderOK == NumbersOK /\ AloneOK /\ AheadOK /\ CompleteOK /\ InOrder /\ ChangesFirst

LEMMA UptoFacts ==
    ASSUME NEW p \in Nat \X Nat, NEW q \in Nat \X Nat
    PROVE  /\ Upto(p, p)
           /\ p[1] < q[1] => Upto(p, q)
           /\ Upto(p, q) => p[1] <= q[1]
           /\ \A r \in Nat \X Nat : Upto(p, q) /\ Upto(q, r) => Upto(p, r)
BY DEF Upto

\* What is passed over to the next command is a read.
LEMMA ForwardSkips ==
    ASSUME TypeOK, NEW d \in Devices, NEW e \in Endpoint, ~AtEnd(d, e.cmd),
           NEW from \in Nat, from = IF e.status = "OK" THEN e.cmd + 1 ELSE e.cmd
    PROVE  /\ Forward(d, e) \in Nat /\ Forward(d, e) >= from
           /\ \A i \in from..(Forward(d, e) - 1) : Kind(d, i) = "READ"
<1> DEFINE n == Len(CommandList(d))
           stops == {k \in from..n : ~Skipped(d, e, k)}
<1>1. n \in Nat /\ e.cmd \in Nat
    BY CommandListType DEF Endpoint
<1>2. from <= n + 1
    BY <1>1 DEF AtEnd
<1>3. Forward(d, e) = IF stops = {} THEN n + 1 ELSE CHOOSE k \in stops : \A j \in stops : k <= j
    BY DEF Forward
<1>4. \A i \in from..n : i \notin stops => Kind(d, i) = "READ"
    BY DEF Skipped
<1>5. stops \in SUBSET Nat /\ stops \subseteq from..n
    BY <1>1
<1>. HIDE DEF stops, n
<1>6. CASE stops = {}
    <2>1. Forward(d, e) = n + 1
        BY <1>3, <1>6
    <2>2. \A i \in from..(Forward(d, e) - 1) : i \in from..n
        BY <1>1, <2>1
    <2>3. QED
        BY <1>1, <1>2, <1>4, <1>6, <2>1, <2>2
<1>7. CASE stops # {}
    <2>1. \E k \in stops : \A j \in stops : k <= j
        BY <1>5, <1>7, FirstOf
    <2>2. Forward(d, e) \in stops /\ \A j \in stops : Forward(d, e) <= j
        BY <1>3, <1>7, <2>1
    <2>3. Forward(d, e) \in from..n
        BY <1>5, <2>2
    <2>4. ASSUME NEW i \in from..(Forward(d, e) - 1) PROVE i \in from..n /\ i \notin stops
        <3>1. i \in Nat /\ i < Forward(d, e) /\ Forward(d, e) \in Nat /\ i \in from..n
            BY <1>1, <2>3
        <3>2. QED
            BY <2>2, <3>1
    <2>5. QED
        BY <1>1, <1>4, <2>3, <2>4
<1>8. QED
    BY <1>6, <1>7

\* What is left of an endpoint by the end of the turn: nothing, what waits as it
\* was, or the next command of the same request.
LEMMA TurnFacts ==
    ASSUME TypeOK, NEW d \in Devices, NEW e \in Endpoint, NEW t, t = Turn(d, e)
    PROVE  /\ t.request \in {e.request, 0} /\ t.status # "OK"
           /\ t.status # "GONE" =>
                 \/ t = e /\ e.status = "SENT"
                 \/ /\ e.status \in {"OK", "NEW"} /\ t.request = e.request /\ t.cmd >= e.cmd
                    /\ \A i \in e.cmd..(t.cmd - 1) :
                          Kind(d, i) = "READ" \/ (i = e.cmd /\ e.status = "OK")
<1> DEFINE c == Clean(d, e)
           f == [c EXCEPT !.status = "NEW", !.cmd = Forward(d, c)]
<1>1. \/ c = Gone
      \/ c = e /\ e.status # "FAIL" /\ ~AtEnd(d, e.cmd)
    BY DEF Clean
<1>2. Gone \in Endpoint /\ Gone.status = "GONE" /\ Gone.request = 0
    BY DEF Gone, Endpoint, Statuses, Versions
<1>3. t = IF c.status \in {"OK", "NEW"} THEN SendCommand(d, f) ELSE c
    BY DEF Turn
<1>4. CASE c.status \notin {"OK", "NEW"}
    BY <1>1, <1>2, <1>3, <1>4 DEF Endpoint, Statuses
<1>5. CASE c.status \in {"OK", "NEW"}
    <2>1. c = e /\ ~AtEnd(d, e.cmd)
        BY <1>1, <1>2, <1>5
    <2>2. PICK from \in Nat : from = IF e.status = "OK" THEN e.cmd + 1 ELSE e.cmd
        BY DEF Endpoint
    <2>3. /\ Forward(d, e) \in Nat /\ Forward(d, e) >= from
          /\ \A i \in from..(Forward(d, e) - 1) : Kind(d, i) = "READ"
        BY <2>1, <2>2, ForwardSkips
    <2>4. f.request = e.request /\ f.cmd = Forward(d, e) /\ f.status = "NEW" /\ f \in Endpoint
        BY <2>1, <2>3 DEF Endpoint, Statuses
    <2>. HIDE DEF f
    <2>5. t.request = f.request /\ t.cmd = f.cmd /\ t.status \in {"NEW", "SENT", "FAIL"}
        BY <1>3, <1>5, <2>4 DEF SendCommand, Endpoint
    <2>6. e.cmd \in Nat /\ e.status \in {"OK", "NEW"}
        BY <1>5, <2>1 DEF Endpoint
    <2>7. \A i \in e.cmd..(t.cmd - 1) : i \in from..(t.cmd - 1) \/ (i = e.cmd /\ e.status = "OK")
        BY <2>2, <2>3, <2>4, <2>5, <2>6
    <2>8. t.cmd >= e.cmd
        BY <2>2, <2>3, <2>4, <2>5, <2>6
    <2>9. QED
        BY <2>3, <2>4, <2>5, <2>6, <2>7, <2>8
<1>6. QED
    BY <1>4, <1>5

\* What the datagram and the requests that are given up make of the endpoint of
\* d before the end of the turn: it may have been answered, or it is new.
Kept(d, e, left) ==
    /\ e.request = endpoints[d].request /\ e.cmd = endpoints[d].cmd
    /\ \/ e.status = endpoints[d].status
       \/ /\ endpoints[d].status = "SENT" /\ e.status \in {"OK", "FAIL"}
          /\ \E x \in transactions : x \notin left /\ x.device = d
    /\ e.status = "OK" /\ e.request \notin crossed /\ Kind(d, e.cmd) \in Changes => At(d) \in Done(d)
Renewed(d, e) ==
    /\ requests' = requests + 1 /\ e.request = requests + 1 /\ e.cmd = 1 /\ e.status = "NEW"
    /\ (\E x \in transactions : x.device = d) => requests + 1 \in crossed'

LEMMA OrderTypes ==
    ASSUME TypeOK
    PROVE  /\ requests \in Nat
           /\ \A x \in transactions : /\ x.device \in Devices /\ x.request \in Nat /\ x.cmd \in Nat
                                      /\ Of(x) \in Nat \X Nat /\ Of(x)[1] = x.request /\ Of(x)[2] = x.cmd
           /\ \A d \in Devices : /\ endpoints[d] \in Endpoint /\ endpoints[d].request \in Nat /\ endpoints[d].cmd \in Nat
                                  /\ At(d) \in Nat \X Nat /\ At(d)[1] = endpoints[d].request /\ At(d)[2] = endpoints[d].cmd
                                  /\ \A p \in Passed(d) : p \in Nat \X Nat /\ p[1] \in Nat /\ p[2] \in Nat
<1>1. ASSUME NEW d \in Devices, NEW p \in Passed(d) PROVE p \in Nat \X Nat
    <2>1. performed[d] \in Seq(Nat \X Nat \X BOOLEAN) /\ copies[d] \subseteq Nat \X Nat
        BY DEF TypeOK
    <2>2. \A i \in DOMAIN performed[d] : performed[d][i] \in Nat \X Nat \X BOOLEAN
        BY <2>1
    <2>3. \A i \in DOMAIN performed[d] : <<performed[d][i][1], performed[d][i][2]>> \in Nat \X Nat
        BY <2>2
    <2>4. QED
        BY <2>1, <2>3 DEF Passed, Done
<1>2. QED
    BY <1>1 DEF TypeOK, Transaction, Endpoint, Of, At

\* The end of a turn, for the endpoint of d if it has one then.
LEMMA TurnOrder ==
    ASSUME TypeOK, TypeOK', OrderOK, NEW d \in Devices, NEW e \in Endpoint, NEW left \in SUBSET transactions,
           endpoints'[d] = Turn(d, e), endpointList' = endpointList, performed' = performed,
           requests <= requests', crossed \subseteq crossed',
           Kept(d, e, left) \/ Renewed(d, e), There(d)'
    PROVE  /\ endpoints'[d].request <= requests'
           /\ endpoints'[d].request \notin crossed' => Complete(d, At(d)')
           /\ \A x \in transactions : x.device = d /\ x.request \notin crossed' => Upto(Of(x), At(d)')
           /\ \A p \in Passed(d) : p[1] \notin crossed' => Upto(p, At(d)')
           /\ \A x \in left : x.device = d /\ endpoints'[d].request \notin crossed' =>
                 e.status = "SENT" /\ endpoints'[d].status = "SENT" /\ Of(x) = At(d)'
           /\ \A x \in left : x.device = d /\ x.request \notin crossed' /\ e.status # "SENT" =>
                 x.request < endpoints'[d].request
<1> DEFINE Goal ==
           /\ endpoints'[d].request <= requests'
           /\ endpoints'[d].request \notin crossed' => Complete(d, At(d)')
           /\ \A x \in transactions : x.device = d /\ x.request \notin crossed' => Upto(Of(x), At(d)')
           /\ \A p \in Passed(d) : p[1] \notin crossed' => Upto(p, At(d)')
           /\ \A x \in left : x.device = d /\ endpoints'[d].request \notin crossed' =>
                 e.status = "SENT" /\ endpoints'[d].status = "SENT" /\ Of(x) = At(d)'
           /\ \A x \in left : x.device = d /\ x.request \notin crossed' /\ e.status # "SENT" =>
                 x.request < endpoints'[d].request
<1>1. PICK t : t = endpoints'[d]
    OBVIOUS
<1>2. /\ t.status # "GONE"
      /\ \/ t = e /\ e.status = "SENT"
         \/ /\ e.status \in {"OK", "NEW"} /\ t.request = e.request /\ t.cmd >= e.cmd
            /\ \A i \in e.cmd..(t.cmd - 1) :
                  Kind(d, i) = "READ" \/ (i = e.cmd /\ e.status = "OK")
    BY <1>1, TurnFacts DEF There
<1>3. /\ t \in Endpoint /\ t.request \in Nat /\ t.cmd \in Nat /\ e.request \in Nat /\ e.cmd \in Nat
      /\ requests \in Nat /\ requests' \in Nat
    BY <1>1 DEF TypeOK, Endpoint
<1>4. t.request = e.request /\ t.cmd >= e.cmd /\ e.status # "GONE"
    BY <1>2, <1>3
<1>5. /\ At(d)' = <<t.request, t.cmd>> /\ At(d)' \in Nat \X Nat
      /\ At(d)'[1] = t.request /\ At(d)'[2] = t.cmd
    BY <1>1, <1>3 DEF At
<1>6. /\ requests \in Nat
      /\ \A x \in transactions : /\ x.device \in Devices /\ x.request \in Nat /\ x.cmd \in Nat
                                 /\ Of(x) \in Nat \X Nat /\ Of(x)[1] = x.request /\ Of(x)[2] = x.cmd
      /\ endpoints[d] \in Endpoint /\ endpoints[d].request \in Nat /\ endpoints[d].cmd \in Nat
      /\ At(d) \in Nat \X Nat /\ At(d)[1] = endpoints[d].request /\ At(d)[2] = endpoints[d].cmd
      /\ \A p \in Passed(d) : p \in Nat \X Nat /\ p[1] \in Nat /\ p[2] \in Nat
    BY OrderTypes
<1>7. CASE Renewed(d, e)
    <2>1. /\ t.request = requests + 1 /\ requests' = requests + 1 /\ e.cmd = 1 /\ e.status = "NEW"
          /\ (\E x \in transactions : x.device = d) => requests + 1 \in crossed'
        BY <1>4, <1>7 DEF Renewed
    <2>2. /\ \A x \in transactions : x.request <= requests
          /\ \A p \in Passed(d) : p[1] <= requests
        BY DEF OrderOK, NumbersOK
    <2>3. \A x \in transactions : x.request < t.request /\ Upto(Of(x), At(d)')
        <3>1. \A x \in transactions : x.request < t.request
            BY <1>6, <2>1, <2>2
        <3>2. QED
            BY <1>5, <1>6, <3>1, UptoFacts
    <2>4. \A p \in Passed(d) : Upto(p, At(d)')
        <3>1. \A p \in Passed(d) : p[1] < t.request
            BY <1>6, <2>1, <2>2
        <3>2. QED
            BY <1>5, <1>6, <3>1, UptoFacts
    <2>5. Complete(d, At(d)')
        <3>1. \A i \in 1..(t.cmd - 1) : Kind(d, i) = "READ"
            BY <1>2, <2>1
        <3>2. "READ" \notin Changes
            BY DEF Changes, Writes
        <3>3. QED
            BY <1>5, <3>1, <3>2 DEF Complete
    <2>6. \A x \in left : x.device = d => t.request \in crossed'
        BY <2>1
    <2>7. t.request <= requests'
        BY <1>3, <2>1
    <2>8. QED
        BY <1>1, <2>3, <2>4, <2>5, <2>6, <2>7
<1>8. CASE Kept(d, e, left)
    <2>1. /\ t.request = endpoints[d].request /\ e.cmd = endpoints[d].cmd
          /\ \/ e.status = endpoints[d].status
             \/ /\ endpoints[d].status = "SENT" /\ e.status \in {"OK", "FAIL"}
                /\ \E x \in transactions : x \notin left /\ x.device = d
          /\ e.status = "OK" /\ e.request \notin crossed /\ Kind(d, e.cmd) \in Changes => At(d) \in Done(d)
        BY <1>4, <1>8 DEF Kept
    <2>2. There(d)
        BY <1>4, <2>1 DEF There
    <2>3. Upto(At(d), At(d)')
        BY <1>3, <1>4, <1>5, <1>6, <2>1 DEF Upto
    <2>4. t.request <= requests'
        <3>1. endpoints[d].request <= requests
            BY DEF OrderOK, NumbersOK
        <3>2. QED
            BY <1>3, <2>1, <3>1
    <2>5. ASSUME t.request \notin crossed' PROVE Complete(d, At(d)')
        <3>1. t.request \notin crossed /\ Complete(d, At(d))
            BY <2>1, <2>2, <2>5 DEF OrderOK, CompleteOK
        <3>2. ASSUME NEW i \in 1..(t.cmd - 1), Kind(d, i) \in Changes PROVE <<t.request, i>> \in Done(d)
            <4>1. CASE i < e.cmd
                <5>1. i \in 1..(endpoints[d].cmd - 1)
                    BY <1>3, <2>1, <4>1
                <5>2. QED
                    BY <1>6, <2>1, <3>1, <3>2, <5>1 DEF Complete
            <4>2. CASE ~(i < e.cmd)
                <5>1. i \in e.cmd..(t.cmd - 1)
                    BY <1>3, <4>2
                <5>2. "READ" \notin Changes
                    BY DEF Changes, Writes
                <5>3. t # e
                    BY <5>1, <1>3
                <5>4. i = e.cmd /\ e.status = "OK"
                    BY <1>2, <3>2, <5>1, <5>2, <5>3
                <5>5. At(d) \in Done(d) /\ At(d) = <<t.request, i>>
                    BY <1>4, <2>1, <3>1, <3>2, <5>4 DEF At
                <5>6. QED
                    BY <5>5
            <4>3. QED
                BY <4>1, <4>2
        <3>3. QED
            BY <1>5, <3>2 DEF Complete
    <2>6. ASSUME NEW x \in transactions, x.device = d, x.request \notin crossed' PROVE Upto(Of(x), At(d)')
        <3>1. Upto(Of(x), At(d))
            BY <2>2, <2>6 DEF OrderOK, AheadOK
        <3>2. QED
            BY <1>5, <1>6, <2>3, <3>1, UptoFacts
    <2>7. ASSUME NEW p \in Passed(d), p[1] \notin crossed' PROVE Upto(p, At(d)')
        <3>1. Upto(p, At(d))
            BY <2>2, <2>7 DEF OrderOK, AheadOK
        <3>2. QED
            BY <1>5, <1>6, <2>3, <3>1, UptoFacts
    <2>8. ASSUME NEW x \in left, x.device = d, t.request \notin crossed'
          PROVE  e.status = "SENT" /\ t.status = "SENT" /\ Of(x) = At(d)'
        <3>1. endpoints[d].request \notin crossed
            BY <2>1, <2>8
        <3>2. \A y \in transactions : y.device = d => endpoints[d].status = "SENT" /\ Of(y) = At(d)
            BY <2>2, <3>1 DEF OrderOK, AloneOK
        <3>3. ASSUME NEW y \in transactions, y.device = d PROVE y = x
            <4>1. y.request = x.request /\ x.request = endpoints[d].request
                BY <1>6, <2>8, <3>2, <3>3
            <4>2. y = x \/ y.request < x.request
                BY <2>8, <3>1, <3>3, <4>1 DEF OrderOK, AloneOK
            <4>3. QED
                BY <1>6, <4>1, <4>2
        <3>4. e.status = "SENT"
            BY <2>1, <2>8, <3>2, <3>3
        <3>5. t = e /\ Of(x) = At(d)
            BY <1>2, <2>8, <3>2, <3>4
        <3>6. QED
            BY <1>5, <2>1, <3>4, <3>5 DEF At
    <2>9. ASSUME NEW x \in left, x.device = d, x.request \notin crossed', e.status # "SENT"
          PROVE  x.request < t.request
        <3>1. t.request \in crossed'
            BY <2>8, <2>9
        <3>2. x.request <= t.request
            BY <1>5, <1>6, <2>6, <2>9, UptoFacts
        <3>3. QED
            BY <1>3, <1>6, <2>9, <3>1, <3>2
    <2>10. QED
        BY <1>1, <2>4, <2>5, <2>6, <2>7, <2>8, <2>9
<1>9. Goal
    BY <1>7, <1>8
<1>10. QED
    BY <1>9

LEMMA EndTurnOrder ==
    ASSUME TypeOK, TypeOK', OrderOK, NEW eps \in [Devices -> Endpoint], NEW left \in SUBSET transactions,
           EndTurn(eps, left), endpointList' = endpointList, performed' = performed,
           requests <= requests', crossed \subseteq crossed',
           \A d \in Devices : Kept(d, eps[d], left) \/ Renewed(d, eps[d])
    PROVE  OrderOK'
<1>1. \A d \in Devices : endpoints'[d] = Turn(d, eps[d]) /\ eps[d] \in Endpoint
    BY DEF EndTurn
<1>2. \A d \in Devices : There(d)' =>
           /\ endpoints'[d].request <= requests'
           /\ endpoints'[d].request \notin crossed' => Complete(d, At(d)')
           /\ \A x \in transactions : x.device = d /\ x.request \notin crossed' => Upto(Of(x), At(d)')
           /\ \A p \in Passed(d) : p[1] \notin crossed' => Upto(p, At(d)')
           /\ \A x \in left : x.device = d /\ endpoints'[d].request \notin crossed' =>
                 eps[d].status = "SENT" /\ endpoints'[d].status = "SENT" /\ Of(x) = At(d)'
           /\ \A x \in left : x.device = d /\ x.request \notin crossed' /\ eps[d].status # "SENT" =>
                 x.request < endpoints'[d].request
    BY <1>1, TurnOrder
\* A transaction is left of before, or new.
<1>3. ASSUME NEW x \in transactions'
      PROVE  \/ x \in left /\ x \in transactions
             \/ /\ x.device \in Devices /\ eps[x.device].status # "SENT"
                /\ endpoints'[x.device].status = "SENT" /\ There(x.device)'
                /\ Of(x) = At(x.device)' /\ x.answer = "none" /\ x.request = endpoints'[x.device].request
                /\ x = [device |-> x.device, request |-> endpoints'[x.device].request,
                        cmd |-> endpoints'[x.device].cmd, answer |-> "none"]
    <2> DEFINE New(d) == [device |-> d, request |-> endpoints'[d].request, cmd |-> endpoints'[d].cmd, answer |-> "none"]
    <2>1. x \in left \/ \E d \in Devices : /\ x = New(d) /\ eps[d].status # "SENT" /\ endpoints'[d].status = "SENT"
        BY DEF EndTurn
    <2>2. CASE x \in left
        BY <2>2
    <2>3. ASSUME NEW d \in Devices, x = New(d), eps[d].status # "SENT", endpoints'[d].status = "SENT"
          PROVE  /\ x.device \in Devices /\ eps[x.device].status # "SENT"
                 /\ endpoints'[x.device].status = "SENT" /\ There(x.device)'
                 /\ Of(x) = At(x.device)' /\ x.answer = "none" /\ x.request = endpoints'[x.device].request
                 /\ x = New(x.device)
        BY <2>3 DEF There, Of, At
    <2>4. QED
        BY <2>1, <2>2, <2>3
<1>4. /\ \A d : Done(d)' = Done(d)
      /\ \A d, k : Kind(d, k)' = Kind(d, k)
      /\ \A x : Of(x)' = Of(x)
    BY DEF Done, Kind, CommandList, Sections, Section, Of
<1>5. \A d, q : Complete(d, q)' <=> Complete(d, q)
    BY <1>4 DEF Complete
<1>6. requests \in Nat /\ requests' \in Nat /\ \A d \in Devices : endpoints'[d].request \in Nat /\ At(d)' \in Nat \X Nat
    BY DEF TypeOK, Endpoint, At
<1>7. /\ \A x \in transactions : /\ x.device \in Devices /\ x.request \in Nat
                                 /\ Of(x) \in Nat \X Nat /\ Of(x)[1] = x.request
      /\ \A d \in Devices : endpoints[d].request \in Nat /\ \A p \in Passed(d) : p \in Nat \X Nat /\ p[1] \in Nat
    BY OrderTypes
\* A copy is of before, or of a command that has ended.
<1>8. ASSUME NEW d \in Devices, NEW p \in copies'[d]
       PROVE  p \in copies[d] \/ \E y \in transactions : y \notin left /\ y.device = d /\ p = Of(y)
    BY DEF EndTurn
<1>9. ASSUME NEW d \in Devices, NEW p, p \in Passed(d)'
       PROVE  p \in Passed(d) \/ \E y \in transactions : y \notin left /\ y.device = d /\ p = Of(y)
    BY <1>4, <1>8, <1>9 DEF Passed
<1>10. NumbersOK'
    <2>1. /\ \A x \in transactions : x.request <= requests'
          /\ \A d \in Devices : \A p \in Passed(d)' : p[1] <= requests'
        <3>1. /\ \A x \in transactions : x.request <= requests
              /\ \A d \in Devices : \A p \in Passed(d) : p[1] <= requests
            BY DEF OrderOK, NumbersOK
        <3>2. \A x \in transactions : x.request <= requests' /\ Of(x)[1] <= requests'
            BY <1>6, <1>7, <3>1
        <3>3. \A d \in Devices : \A p \in Passed(d) : p[1] <= requests'
            BY <1>6, <1>7, <3>1
        <3>4. QED
            BY <1>9, <3>2, <3>3
    <2>2. ASSUME NEW d \in Devices PROVE endpoints'[d].request <= requests'
        <3>1. endpoints'[d].request \in {eps[d].request, 0}
            BY <1>1, TurnFacts
        <3>2. eps[d].request \in {endpoints[d].request, requests'}
            BY DEF Kept, Renewed
        <3>3. endpoints[d].request <= requests
            BY DEF OrderOK, NumbersOK
        <3>4. endpoints'[d].request \in {endpoints[d].request, requests', 0}
            BY <3>1, <3>2
        <3>5. QED
            BY <1>6, <1>7, <3>3, <3>4
    <2>3. \A x \in transactions' : x.request <= requests'
        BY <1>2, <1>3, <2>1
    <2>4. QED
        BY <1>4, <2>1, <2>2, <2>3 DEF NumbersOK
<1>11. AloneOK'
    <2>1. ASSUME NEW x \in transactions', NEW y \in transactions', x.device = y.device, x.request \notin crossed'
          PROVE  x = y \/ x.request < y.request
        <3>1. CASE x \in left /\ y \in left
            BY <2>1, <3>1 DEF OrderOK, AloneOK
        <3>2. CASE x \in left /\ y \notin left
            BY <1>2, <1>3, <2>1, <3>2
        <3>3. CASE x \notin left /\ y \in left
            BY <1>2, <1>3, <2>1, <3>3
        <3>4. CASE x \notin left /\ y \notin left
            BY <1>3, <2>1, <3>4
        <3>5. QED
            BY <3>1, <3>2, <3>3, <3>4
    <2>2. ASSUME NEW x \in transactions', There(x.device)', endpoints'[x.device].request \notin crossed'
          PROVE  endpoints'[x.device].status = "SENT" /\ Of(x) = At(x.device)'
        <3>1. x \in left => x.device \in Devices
            BY <1>7
        <3>2. QED
            BY <1>2, <1>3, <2>2, <3>1
    <2>3. QED
        BY <1>4, <2>1, <2>2 DEF AloneOK
<1>12. AheadOK'
    <2>1. ASSUME NEW x \in transactions', There(x.device)', x.request \notin crossed' PROVE Upto(Of(x), At(x.device)')
        <3>1. CASE x \in left
            BY <1>2, <1>7, <2>1, <3>1
        <3>2. CASE x \notin left
            <4>1. x.device \in Devices /\ Of(x) = At(x.device)'
                BY <1>3, <3>2
            <4>2. At(x.device)' \in Nat \X Nat
                BY <1>6, <4>1
            <4>3. QED
                BY <4>1, <4>2, UptoFacts
        <3>3. QED
            BY <3>1, <3>2
    <2>2. ASSUME NEW d \in Devices, NEW p, p \in Passed(d)', p[1] \notin crossed', There(d)' PROVE Upto(p, At(d)')
        <3>1. CASE p \in Passed(d)
            BY <1>2, <2>2, <3>1
        <3>2. ASSUME NEW y \in transactions, y.device = d, p = Of(y) PROVE Upto(p, At(d)')
            BY <1>2, <1>7, <2>2, <3>2
        <3>3. QED
            BY <1>9, <2>2, <3>1, <3>2
    <2>3. ASSUME NEW d \in Devices, NEW p, p \in Passed(d)', p[1] \notin crossed', NEW x \in transactions', x.device = d
          PROVE  Upto(p, Of(x))
        <3>1. CASE x \in left
            <4>1. CASE p \in Passed(d)
                BY <2>3, <3>1, <4>1 DEF OrderOK, AheadOK
            <4>2. ASSUME NEW y \in transactions, y \notin left, y.device = d, p = Of(y) PROVE Upto(p, Of(x))
                <5>1. y.request < x.request
                    BY <1>7, <2>3, <3>1, <4>2 DEF OrderOK, AloneOK
                <5>2. QED
                    BY <1>7, <3>1, <4>2, <5>1, UptoFacts
            <4>3. QED
                BY <1>9, <2>3, <4>1, <4>2
        <3>2. CASE x \notin left
            BY <1>3, <2>2, <2>3, <3>2
        <3>3. QED
            BY <3>1, <3>2
    <2>4. QED
        BY <1>4, <2>1, <2>2, <2>3 DEF AheadOK, Upto
<1>13. CompleteOK'
    <2>1. ASSUME NEW x \in transactions', x.request \notin crossed' PROVE Complete(x.device, Of(x))
        <3>1. CASE x \in left
            BY <2>1, <3>1 DEF OrderOK, CompleteOK
        <3>2. CASE x \notin left
            BY <1>2, <1>3, <2>1, <3>2
        <3>3. QED
            BY <3>1, <3>2
    <2>2. ASSUME NEW d \in Devices, There(d)', endpoints'[d].request \notin crossed' PROVE Complete(d, At(d)')
        BY <1>2, <2>2
    <2>3. ASSUME NEW x \in transactions', x.answer \notin {"none", "error"} PROVE Of(x) \in Done(x.device)
        BY <1>3, <2>3 DEF OrderOK, CompleteOK
    <2>4. \A d \in Devices : endpoints'[d].status # "OK"
        BY <1>1, TurnFacts
    <2>5. ASSUME NEW x \in transactions', x.request \notin crossed' PROVE Complete(x.device, Of(x))'
        BY <1>4, <2>1, <2>5 DEF Complete
    <2>6. ASSUME NEW d \in Devices, There(d)', endpoints'[d].request \notin crossed' PROVE Complete(d, At(d))'
        BY <1>4, <2>2, <2>6 DEF Complete
    <2>7. \A x \in transactions' : x.answer \notin {"none", "error"} => Of(x)' \in Done(x.device)'
        BY <1>4, <2>3
    <2>8. ASSUME NEW d \in Devices, NEW p \in copies'[d], p[1] \notin crossed' PROVE Complete(d, p)'
        <3>1. CASE p \in copies[d]
            BY <1>5, <2>8, <3>1 DEF OrderOK, CompleteOK
        <3>2. ASSUME NEW y \in transactions, y.device = d, p = Of(y) PROVE Complete(d, p)'
            BY <1>5, <1>7, <2>8, <3>2 DEF OrderOK, CompleteOK
        <3>3. QED
            BY <1>8, <3>1, <3>2
    <2>9. QED
        BY <2>4, <2>5, <2>6, <2>7, <2>8 DEF CompleteOK
<1>14. InOrder'
    BY DEF OrderOK, InOrder, Upto
<1>15. ChangesFirst'
    <2>1. ASSUME NEW d \in Devices, NEW j \in DOMAIN performed[d], NEW k \in 1..(performed[d][j][2] - 1),
                 performed[d][j][1] \notin crossed', Kind(d, k) \in Changes
          PROVE  \E i \in DOMAIN performed[d] :
                    i < j /\ performed[d][i][1] = performed[d][j][1] /\ performed[d][i][2] = k
        <3>1. performed[d][j][1] \notin crossed
            BY <2>1
        <3>2. QED
            BY <2>1, <3>1 DEF OrderOK, ChangesFirst
    <2>2. ChangesFirst' <=>
            \A d \in Devices : \A j \in DOMAIN performed[d] :
                performed[d][j][1] \notin crossed' =>
                    \A k \in 1..(performed[d][j][2] - 1) :
                        Kind(d, k) \in Changes =>
                            \E i \in DOMAIN performed[d] :
                                i < j /\ performed[d][i][1] = performed[d][j][1] /\ performed[d][i][2] = k
        BY DEF ChangesFirst, Kind, CommandList, Sections, Section, Changes
    <2>3. QED
        BY <2>1, <2>2
<1>16. QED
    BY <1>10, <1>11, <1>12, <1>13, <1>14, <1>15 DEF OrderOK

\* An answer, or a request that is given up, ends what an endpoint waits for; a
\* change goes on only with its success.
LEMMA ToldFacts ==
    ASSUME NEW d \in Devices, NEW e \in Endpoint, NEW code, NEW tells \in Versions,
           e.status = "SENT" => ~AtEnd(d, e.cmd), NEW t, t = Told(d, e, code, tells)
    PROVE  /\ t \in Endpoint /\ t.request = e.request /\ t.cmd = e.cmd
           /\ e.status # "SENT" => t = e
           /\ e.status = "SENT" => t.status \in {"OK", "FAIL"}
           /\ e.status = "SENT" /\ t.status = "OK" /\ Kind(d, e.cmd) \in Changes => code \in {"2.02", "2.04"}
<1>1. CASE e.status # "SENT"
    BY <1>1 DEF Told
<1>2. CASE e.status = "SENT"
    <2>1. t = [e EXCEPT
            !.status = IF GoesOn(Kind(d, e.cmd), code) THEN "OK" ELSE "FAIL",
            !.version = IF Kind(d, e.cmd) = "DISCOVER" /\ code = "2.05" /\ tells # "missing"
                        THEN tells ELSE @]
        BY <1>2 DEF Told
    <2>2. t.request = e.request /\ t.cmd = e.cmd /\ t.status = IF GoesOn(Kind(d, e.cmd), code) THEN "OK" ELSE "FAIL"
        BY <2>1 DEF Endpoint
    <2>3. t \in Endpoint
        BY ToldType
    <2>4. GoesOn(Kind(d, e.cmd), code) /\ Kind(d, e.cmd) \in Changes => code \in {"2.02", "2.04"}
        BY DEF GoesOn, Changes, Writes
    <2>5. QED
        BY <1>2, <2>2, <2>3, <2>4
<1>3. QED
    BY <1>1, <1>2

LEMMA StepOnKept ==
    ASSUME TypeOK, Waiting, OrderOK, NEW lost \in SUBSET transactions, NEW d \in Devices,
           NEW left, left = transactions \ lost
    PROVE  Kept(d, StepOn(lost)[d], left)
<1>1. /\ endpoints[d] \in Endpoint /\ endpoints[d].status # "OK"
      /\ endpoints[d].status = "SENT" => ~AtEnd(d, endpoints[d].cmd)
    BY DEF TypeOK, Waiting, Waits, OrderOK, CompleteOK
<1>2. CASE \E x \in lost : x.device = d
    <2>1. PICK t : t = Told(d, endpoints[d], "error", "missing")
        OBVIOUS
    <2>2. StepOn(lost)[d] = t
        BY <1>2, <2>1 DEF StepOn
    <2>3. /\ t.request = endpoints[d].request /\ t.cmd = endpoints[d].cmd
          /\ endpoints[d].status # "SENT" => t = endpoints[d]
          /\ endpoints[d].status = "SENT" => t.status \in {"OK", "FAIL"}
          /\ endpoints[d].status = "SENT" /\ t.status = "OK" => Kind(d, endpoints[d].cmd) \notin Changes
        BY <1>1, <2>1, ToldFacts DEF Versions
    <2>4. \E x \in transactions : x \notin left /\ x.device = d
        BY <1>2
    <2>5. QED
        BY <1>1, <2>2, <2>3, <2>4 DEF Kept
<1>3. CASE ~\E x \in lost : x.device = d
    BY <1>1, <1>3 DEF StepOn, Kept
<1>4. QED
    BY <1>2, <1>3

LEMMA AnsweredKept ==
    ASSUME TypeOK, Waiting, OrderOK, NEW lost \in SUBSET transactions, NEW x \in transactions, NEW tells \in Versions,
           Answered(x, tells, lost), NEW e, e = Told(x.device, StepOn(lost)[x.device], x.answer, tells),
           NEW left, left = transactions \ (lost \cup {x})
    PROVE  Kept(x.device, e, left)
<1>1. PICK d \in Devices : d = x.device
    BY DEF TypeOK, Transaction
<1>2. PICK s : s = StepOn(lost)[d]
    OBVIOUS
<1>3. s \in Endpoint
    BY <1>2, StepOnType
<1>4. Kept(d, s, transactions \ lost)
    BY <1>2, StepOnKept
<1>5. s.status = "SENT" => ~AtEnd(d, s.cmd)
    BY <1>2, StepOnWaits DEF Waits
<1>6. /\ e.request = s.request /\ e.cmd = s.cmd
      /\ s.status # "SENT" => e = s
      /\ s.status = "SENT" => e.status \in {"OK", "FAIL"}
      /\ s.status = "SENT" /\ e.status = "OK" /\ Kind(d, s.cmd) \in Changes => x.answer \in {"2.02", "2.04"}
    BY <1>1, <1>2, <1>3, <1>5, ToldFacts
<1>7. CASE s.status # "SENT"
    BY <1>1, <1>4, <1>6, <1>7 DEF Kept
<1>8. CASE s.status = "SENT"
    <2>1. s.request = endpoints[d].request /\ s.cmd = endpoints[d].cmd /\ endpoints[d].status = "SENT"
        BY <1>4, <1>8 DEF Kept
    <2>2. x \notin left /\ x.device = d
        BY <1>1
    <2>3. ASSUME e.status = "OK", e.request \notin crossed, Kind(d, e.cmd) \in Changes PROVE At(d) \in Done(d)
        <3>1. x.answer \notin {"none", "error"}
            BY <1>6, <1>8, <2>3
        <3>2. Of(x) \in Done(d)
            BY <1>1, <3>1 DEF OrderOK, CompleteOK
        <3>3. Of(x) = At(d)
            BY <1>1, <1>6, <2>1, <2>3 DEF OrderOK, AloneOK, There
        <3>4. QED
            BY <3>2, <3>3
    <2>4. QED
        BY <1>1, <1>6, <1>8, <2>1, <2>2, <2>3 DEF Kept
<1>9. QED
    BY <1>7, <1>8

\* A device does one more command, q, when what had to be done before it was;
\* unless it does it late, all that it has done is up to q.
LEMMA DoneOrder ==
    ASSUME TypeOK, OrderOK, NEW d \in Devices, NEW q \in Nat \X Nat, NEW late \in BOOLEAN,
           performed' = [performed EXCEPT ![d] = Append(@, <<q[1], q[2], late>>)],
           endpointList' = endpointList, crossed' = crossed,
           q[1] \notin crossed => Complete(d, q),
           ~late => \A p \in Done(d) : p[1] \notin crossed => Upto(p, q)
    PROVE  /\ InOrder' /\ ChangesFirst'
           /\ Done(d)' = Done(d) \cup {q} /\ \A c \in Devices \ {d} : Done(c)' = Done(c)
<1>1. PICK n \in Nat : n = Len(performed[d])
    BY DEF TypeOK
<1>2. PICK S, r : S = Nat \X Nat \X BOOLEAN /\ r = <<q[1], q[2], late>>
    OBVIOUS
<1>3. r \in S /\ r[1] = q[1] /\ r[2] = q[2] /\ r[3] = late
    BY <1>2
<1>4. performed \in [Devices -> Seq(S)] /\ performed[d] \in Seq(S)
    BY <1>2 DEF TypeOK
<1>5. performed'[d] = Append(performed[d], r) /\ \A c \in Devices \ {d} : performed'[c] = performed[c]
    BY <1>2, <1>4
<1>6. /\ DOMAIN performed[d] = 1..n /\ DOMAIN performed'[d] = 1..(n + 1)
      /\ \A i \in 1..n : performed'[d][i] = performed[d][i]
      /\ performed'[d][n + 1] = r
    <2>1. PICK s : s = performed[d]
        OBVIOUS
    <2>2. s \in Seq(S) /\ Len(s) = n /\ performed'[d] = Append(s, r)
        BY <1>1, <1>4, <1>5, <2>1
    <2>3. /\ Append(s, r) \in Seq(S) /\ Len(Append(s, r)) = n + 1
          /\ \A i \in 1..n : Append(s, r)[i] = s[i]
          /\ Append(s, r)[n + 1] = r
        BY <1>3, <2>2, AppendProperties
    <2>4. DOMAIN s = 1..n /\ DOMAIN Append(s, r) = 1..(n + 1)
        BY <2>2, <2>3, LenProperties
    <2>5. QED
        BY <2>1, <2>2, <2>3, <2>4
<1>7. \A i \in 1..(n + 1) : i \in 1..n \/ i = n + 1
    OBVIOUS
<1>8. \A c \in Devices \ {d} : Done(c)' = Done(c)
    BY <1>5 DEF Done
<1>9. q = <<q[1], q[2]>>
    OBVIOUS
<1>10. Done(d)' = Done(d) \cup {q}
    <2>1. n + 1 \in 1..(n + 1) /\ \A i \in 1..n : i \in 1..(n + 1)
        BY <1>1
    <2>2. \A i \in 1..n : /\ performed'[d][i][1] = performed[d][i][1]
                          /\ performed'[d][i][2] = performed[d][i][2]
        BY <1>6
    <2>3. <<performed'[d][n + 1][1], performed'[d][n + 1][2]>> = q
        BY <1>3, <1>6, <1>9
    <2>4. Done(d)' = {<<performed'[d][i][1], performed'[d][i][2]>> : i \in 1..(n + 1)}
        BY <1>6 DEF Done
    <2>5. Done(d) = {<<performed[d][i][1], performed[d][i][2]>> : i \in 1..n}
        BY <1>6 DEF Done
    <2>6. ASSUME NEW p \in Done(d)' PROVE p \in Done(d) \cup {q}
        <3>1. PICK i \in 1..(n + 1) : p = <<performed'[d][i][1], performed'[d][i][2]>>
            BY <2>4
        <3>2. CASE i \in 1..n
            BY <2>2, <2>5, <3>1, <3>2
        <3>3. CASE i = n + 1
            BY <2>3, <3>1, <3>3
        <3>4. QED
            BY <1>7, <3>2, <3>3
    <2>7. ASSUME NEW p \in Done(d) PROVE p \in Done(d)'
        <3>1. PICK i \in 1..n : p = <<performed[d][i][1], performed[d][i][2]>>
            BY <2>5
        <3>2. QED
            BY <2>1, <2>2, <2>4, <3>1
    <2>8. q \in Done(d)'
        BY <2>1, <2>3, <2>4
    <2>9. QED
        BY <2>6, <2>7, <2>8
<1>11. InOrder'
    <2>1. ASSUME NEW c \in Devices, NEW i \in DOMAIN performed'[c], NEW j \in DOMAIN performed'[c],
                 i < j, performed'[c][i][1] \notin crossed, ~performed'[c][j][3]
          PROVE  Upto(performed'[c][i], performed'[c][j])
        <3>1. CASE c # d
            <4>1. performed'[c] = performed[c]
                BY <1>5, <3>1
            <4>2. QED
                BY <2>1, <4>1 DEF OrderOK, InOrder
        <3>2. CASE c = d /\ j \in 1..n
            <4>1. i \in 1..n
                BY <1>1, <1>6, <2>1, <3>2
            <4>2. QED
                BY <1>6, <2>1, <3>2, <4>1 DEF OrderOK, InOrder
        <3>3. CASE c = d /\ j = n + 1
            <4>1. i \in 1..n /\ performed'[c][i] = performed[d][i] /\ performed'[c][j] = r
                BY <1>1, <1>6, <2>1, <3>3
            <4>2. <<performed[d][i][1], performed[d][i][2]>> \in Done(d)
                BY <1>6, <4>1 DEF Done
            <4>3. Upto(<<performed[d][i][1], performed[d][i][2]>>, q)
                BY <1>3, <2>1, <4>1, <4>2
            <4>4. QED
                BY <1>3, <4>1, <4>3 DEF Upto
        <3>4. QED
            BY <1>6, <1>7, <2>1, <3>1, <3>2, <3>3
    <2>2. QED
        BY <2>1 DEF InOrder, Upto
<1>12. ChangesFirst'
    <2>1. ASSUME NEW c \in Devices, NEW j \in DOMAIN performed'[c], NEW k \in 1..(performed'[c][j][2] - 1),
                 performed'[c][j][1] \notin crossed, Kind(c, k) \in Changes
          PROVE  \E i \in DOMAIN performed'[c] :
                    i < j /\ performed'[c][i][1] = performed'[c][j][1] /\ performed'[c][i][2] = k
        <3>1. CASE c # d
            <4>1. performed'[c] = performed[c]
                BY <1>5, <3>1
            <4>2. /\ j \in DOMAIN performed[c] /\ performed[c][j][1] \notin crossed
                  /\ k \in 1..(performed[c][j][2] - 1) /\ Kind(c, k) \in Changes
                BY <2>1, <4>1
            <4>3. \E i \in DOMAIN performed[c] :
                     i < j /\ performed[c][i][1] = performed[c][j][1] /\ performed[c][i][2] = k
                BY <4>2 DEF OrderOK, ChangesFirst
            <4>4. QED
                BY <4>1, <4>3
        <3>2. CASE c = d /\ j \in 1..n
            <4>1. performed'[c][j] = performed[d][j] /\ j \in DOMAIN performed[d]
                BY <1>6, <3>2
            <4>2. PICK i \in 1..n : i < j /\ performed[d][i][1] = performed[d][j][1] /\ performed[d][i][2] = k
                <5>1. performed[d][j][1] \notin crossed /\ k \in 1..(performed[d][j][2] - 1) /\ Kind(d, k) \in Changes
                    BY <2>1, <3>2, <4>1
                <5>2. QED
                    BY <1>6, <4>1, <5>1 DEF OrderOK, ChangesFirst
            <4>3. i \in DOMAIN performed'[c] /\ performed'[c][i] = performed[d][i]
                BY <1>1, <1>6, <3>2, <4>2
            <4>4. QED
                BY <4>1, <4>2, <4>3
        <3>3. CASE c = d /\ j = n + 1
            <4>1. performed'[c][j] = r /\ q[1] \notin crossed /\ k \in 1..(q[2] - 1)
                BY <1>3, <1>6, <2>1, <3>3
            <4>2. <<q[1], k>> \in Done(d)
                BY <2>1, <3>3, <4>1 DEF Complete
            <4>3. PICK i \in 1..n : <<performed[d][i][1], performed[d][i][2]>> = <<q[1], k>>
                BY <1>6, <4>2 DEF Done
            <4>4. i < j /\ i \in DOMAIN performed'[c] /\ performed'[c][i] = performed[d][i]
                BY <1>1, <1>6, <3>3, <4>3
            <4>5. QED
                BY <1>3, <4>1, <4>3, <4>4
        <3>4. QED
            BY <1>6, <1>7, <2>1, <3>1, <3>2, <3>3
    <2>2. ChangesFirst' <=>
            \A c \in Devices : \A j \in DOMAIN performed'[c] :
                performed'[c][j][1] \notin crossed =>
                    \A k \in 1..(performed'[c][j][2] - 1) :
                        Kind(c, k) \in Changes =>
                            \E i \in DOMAIN performed'[c] :
                                i < j /\ performed'[c][i][1] = performed'[c][j][1] /\ performed'[c][i][2] = k
        BY DEF ChangesFirst, Kind, CommandList, Sections, Section, Changes
    <2>3. QED
        BY <2>1, <2>2
<1>13. QED
    BY <1>8, <1>10, <1>11, <1>12

LEMMA SameOrder ==
    ASSUME OrderOK, UNCHANGED <<performed, crossed, endpointList>>
    PROVE  InOrder' /\ ChangesFirst'
<1>1. InOrder'
    BY DEF OrderOK, InOrder, Upto
<1>2. ChangesFirst' <=> ChangesFirst
    BY DEF ChangesFirst, Kind, CommandList, Sections, Section, Changes
<1>3. QED
    BY <1>1, <1>2 DEF OrderOK

\* A device does a command, or refuses it: what the request is and where it is
\* in the order stay.
LEMMA PerformOrder ==
    ASSUME TypeOK, TypeOK', OrderOK, NEW x \in transactions, NEW ok \in BOOLEAN, Perform(x, ok)
    PROVE  OrderOK'
<1>1. PICK d \in Devices : d = x.device
    BY DEF TypeOK, Transaction
<1>2. PICK y : y = [x EXCEPT !.answer = IF ok THEN Success(Kind(x.device, x.cmd)) ELSE "error"]
    OBVIOUS
<1>3. /\ performed' = IF ok THEN [performed EXCEPT ![d] = Append(@, <<Of(x)[1], Of(x)[2], FALSE>>)] ELSE performed
      /\ transactions' = (transactions \ {x}) \cup {y}
      /\ endpointList' = endpointList /\ endpoints' = endpoints /\ requests' = requests /\ crossed' = crossed
      /\ copies' = copies
    BY <1>1, <1>2 DEF Perform, Of
<1>4. /\ y.device = d /\ y.request = x.request /\ y.cmd = x.cmd /\ Of(y) = Of(x)
      /\ y.answer \notin {"none", "error"} => ok
    BY <1>1, <1>2 DEF TypeOK, Transaction, Of
<1>5. /\ \A z \in transactions : /\ z.device \in Devices /\ z.request \in Nat /\ z.cmd \in Nat
                                 /\ Of(z) \in Nat \X Nat /\ Of(z)[1] = z.request /\ Of(z)[2] = z.cmd
      /\ \A c \in Devices : \A p \in Passed(c) : p \in Nat \X Nat /\ p[1] \in Nat /\ p[2] \in Nat
    BY OrderTypes
<1>6. /\ \A c, k : Kind(c, k)' = Kind(c, k)
      /\ \A c : At(c)' = At(c) /\ (There(c)' <=> There(c))
    BY <1>3 DEF Kind, CommandList, Sections, Section, At, There
<1>7. x.request \notin crossed => Complete(d, Of(x))
    BY <1>1 DEF OrderOK, CompleteOK
<1>8. \A p \in Done(d) : p[1] \notin crossed => Upto(p, Of(x))
    BY <1>1 DEF OrderOK, AheadOK, Passed
<1>9. /\ InOrder' /\ ChangesFirst'
      /\ \A c \in Devices : Done(c) \subseteq Done(c)'
      /\ \A c \in Devices : \A p \in Passed(c)' : p \in Passed(c) \/ (ok /\ c = d /\ p = Of(x))
      /\ ok => Of(x) \in Done(d)'
    <2>1. CASE ok
        <3>1. /\ InOrder' /\ ChangesFirst'
              /\ Done(d)' = Done(d) \cup {Of(x)} /\ \A c \in Devices \ {d} : Done(c)' = Done(c)
            BY <1>3, <1>5, <1>7, <1>8, <2>1, DoneOrder
        <3>2. QED
            BY <1>3, <2>1, <3>1 DEF Passed
    <2>2. CASE ~ok
        <3>1. performed' = performed /\ crossed' = crossed /\ endpointList' = endpointList
            BY <1>3, <2>2
        <3>2. InOrder' /\ ChangesFirst'
            BY <3>1, SameOrder
        <3>3. \A c : Done(c)' = Done(c)
            BY <3>1 DEF Done
        <3>4. \A c : Passed(c)' = Passed(c)
            BY <1>3, <3>3 DEF Passed
        <3>5. QED
            BY <2>2, <3>2, <3>3, <3>4
    <2>3. QED
        BY <2>1, <2>2
<1>10. /\ \A z \in transactions' : z \in transactions \/ z = y
       /\ \A z \in transactions' : z # y => z # x
    BY <1>3
<1>11. NumbersOK'
    <2>1. /\ \A z \in transactions : z.request <= requests
          /\ \A c \in Devices : endpoints[c].request <= requests
          /\ \A c \in Devices : \A p \in Passed(c) : p[1] <= requests
        BY DEF OrderOK, NumbersOK
    <2>2. \A z \in transactions' : z.request <= requests
        BY <1>4, <1>10, <2>1
    <2>3. \A c \in Devices : \A p \in Passed(c)' : p[1] <= requests
        BY <1>5, <1>9, <2>1
    <2>4. QED
        BY <1>3, <2>1, <2>2, <2>3 DEF NumbersOK
<1>12. AloneOK'
    <2>1. ASSUME NEW z \in transactions', NEW w \in transactions', z.device = w.device, z.request \notin crossed
          PROVE  z = w \/ z.request < w.request
        <3>1. \A u, v \in transactions : u.device = v.device /\ u.request \notin crossed => u = v \/ u.request < v.request
            BY DEF OrderOK, AloneOK
        <3>2. CASE z = y /\ w # y
            BY <1>1, <1>4, <1>10, <2>1, <3>1, <3>2
        <3>3. CASE z # y /\ w = y
            BY <1>1, <1>4, <1>10, <2>1, <3>1, <3>3
        <3>4. CASE z # y /\ w # y
            BY <1>10, <2>1, <3>1, <3>4
        <3>5. QED
            BY <3>2, <3>3, <3>4
    <2>2. ASSUME NEW z \in transactions', There(z.device), endpoints[z.device].request \notin crossed
          PROVE  endpoints[z.device].status = "SENT" /\ Of(z) = At(z.device)
        BY <1>1, <1>4, <1>10, <2>2 DEF OrderOK, AloneOK
    <2>3. QED
        BY <1>3, <1>6, <2>1, <2>2 DEF AloneOK, Of, There
<1>13. AheadOK'
    <2>1. ASSUME NEW z \in transactions', There(z.device), z.request \notin crossed PROVE Upto(Of(z), At(z.device))
        BY <1>1, <1>4, <1>10, <2>1 DEF OrderOK, AheadOK
    <2>2. ASSUME NEW c \in Devices, NEW p, p \in Passed(c)', p[1] \notin crossed, There(c) PROVE Upto(p, At(c))
        <3>1. CASE p \in Passed(c)
            BY <2>2, <3>1 DEF OrderOK, AheadOK
        <3>2. CASE p = Of(x) /\ c = d
            BY <1>1, <1>5, <2>2, <3>2 DEF OrderOK, AheadOK
        <3>3. QED
            BY <1>9, <2>2, <3>1, <3>2
    <2>3. ASSUME NEW c \in Devices, NEW p, p \in Passed(c)', p[1] \notin crossed, NEW z \in transactions', z.device = c
          PROVE  Upto(p, Of(z))
        <3>1. PICK w \in transactions : w.device = c /\ Of(w) = Of(z)
            BY <1>1, <1>4, <1>10, <2>3
        <3>2. CASE p \in Passed(c)
            BY <2>3, <3>1, <3>2 DEF OrderOK, AheadOK
        <3>3. CASE p = Of(x) /\ c = d
            <4>1. x = w \/ x.request < w.request
                BY <1>1, <1>5, <2>3, <3>1, <3>3 DEF OrderOK, AloneOK
            <4>2. QED
                BY <1>5, <3>1, <3>3, <4>1, UptoFacts
        <3>4. QED
            BY <1>9, <2>3, <3>2, <3>3
    <2>4. QED
        BY <1>3, <1>6, <2>1, <2>2, <2>3 DEF AheadOK, Of, Upto
<1>14. CompleteOK'
    <2>1. ASSUME NEW c \in Devices, NEW q, Complete(c, q)
          PROVE  \A i \in 1..(q[2] - 1) : Kind(c, i)' \in Changes => <<q[1], i>> \in Done(c)'
        BY <1>6, <1>9, <2>1 DEF Complete
    <2>2. ASSUME NEW z \in transactions', z.request \notin crossed PROVE z.device \in Devices /\ Complete(z.device, Of(z))
        BY <1>1, <1>4, <1>5, <1>10, <2>2 DEF OrderOK, CompleteOK
    <2>3. ASSUME NEW c \in Devices, There(c), endpoints[c].request \notin crossed PROVE Complete(c, At(c))
        BY <2>3 DEF OrderOK, CompleteOK
    <2>4. ASSUME NEW z \in transactions', z.answer \notin {"none", "error"} PROVE Of(z) \in Done(z.device)'
        <3>1. CASE z = y
            BY <1>4, <1>9, <2>4, <3>1
        <3>2. CASE z # y
            BY <1>5, <1>9, <1>10, <2>4, <3>2 DEF OrderOK, CompleteOK
        <3>3. QED
            BY <3>1, <3>2
    <2>5. \A c \in Devices : endpoints[c].status # "OK"
        BY DEF OrderOK, CompleteOK
    <2>6. ASSUME NEW z \in transactions', z.request \notin crossed' PROVE Complete(z.device, Of(z))'
        <3>1. \A i \in 1..(Of(z)[2] - 1) : Kind(z.device, i)' \in Changes => <<Of(z)[1], i>> \in Done(z.device)'
            BY <1>3, <2>1, <2>2, <2>6
        <3>2. QED
            BY <3>1 DEF Complete, Of, Changes, Writes
    <2>7. ASSUME NEW c \in Devices, There(c)', endpoints'[c].request \notin crossed' PROVE Complete(c, At(c))'
        <3>1. \A i \in 1..(At(c)[2] - 1) : Kind(c, i)' \in Changes => <<At(c)[1], i>> \in Done(c)'
            BY <1>3, <1>6, <2>1, <2>3, <2>7
        <3>2. QED
            BY <1>3, <3>1 DEF Complete, At, Changes, Writes
    <2>8. \A z \in transactions' : Of(z)' = Of(z)
        BY DEF Of
    <2>9. ASSUME NEW c \in Devices, NEW p \in copies[c], p[1] \notin crossed PROVE Complete(c, p)'
        <3>1. Complete(c, p)
            BY <2>9 DEF OrderOK, CompleteOK
        <3>2. \A i \in 1..(p[2] - 1) : Kind(c, i)' \in Changes => <<p[1], i>> \in Done(c)'
            BY <2>1, <3>1
        <3>3. QED
            BY <3>2 DEF Complete, Changes, Writes
    <2>10. QED
        BY <1>3, <2>4, <2>5, <2>6, <2>7, <2>8, <2>9 DEF CompleteOK
<1>15. QED
    BY <1>9, <1>11, <1>12, <1>13, <1>14 DEF OrderOK

\* A device does a command late: all that is told of what is over holds of it.
LEMMA PerformLateOrder ==
    ASSUME TypeOK, TypeOK', OrderOK, NEW d \in Devices, NEW p \in copies[d], PerformLate(d, p)
    PROVE  OrderOK'
<1>1. /\ performed' = [performed EXCEPT ![d] = Append(@, <<p[1], p[2], TRUE>>)]
      /\ UNCHANGED <<endpointList, endpoints, requests, crossed, transactions, copies>>
    BY DEF PerformLate
<1>2. p \in Nat \X Nat
    BY DEF TypeOK
<1>3. p[1] \notin crossed => Complete(d, p)
    BY DEF OrderOK, CompleteOK
<1>4. /\ InOrder' /\ ChangesFirst'
      /\ Done(d)' = Done(d) \cup {p} /\ \A c \in Devices \ {d} : Done(c)' = Done(c)
    BY <1>1, <1>2, <1>3, DoneOrder
<1>5. \A c \in Devices : Done(c) \subseteq Done(c)' /\ Passed(c)' = Passed(c)
    BY <1>1, <1>4 DEF Passed
<1>6. /\ \A c, k : Kind(c, k)' = Kind(c, k)
      /\ \A c : At(c)' = At(c) /\ (There(c)' <=> There(c))
      /\ \A z : Of(z)' = Of(z)
    BY <1>1 DEF Kind, CommandList, Sections, Section, At, There, Of
<1>7. NumbersOK'
    BY <1>1, <1>5 DEF OrderOK, NumbersOK
<1>8. AloneOK'
    BY <1>1, <1>6 DEF OrderOK, AloneOK
<1>9. AheadOK'
    <2>1. \A z \in transactions : z.device \in Devices
        BY OrderTypes
    <2>2. QED
        BY <1>1, <1>5, <1>6 DEF OrderOK, AheadOK, Upto
<1>10. CompleteOK'
    <2>1. \A c \in Devices : \A q : Complete(c, q) => Complete(c, q)'
        BY <1>5, <1>6 DEF Complete
    <2>2. \A z \in transactions : z.device \in Devices
        BY OrderTypes
    <2>3. ASSUME NEW z \in transactions, z.request \notin crossed PROVE Complete(z.device, Of(z))'
        <3>1. Complete(z.device, Of(z))
            BY <2>3 DEF OrderOK, CompleteOK
        <3>2. QED
            BY <1>5, <1>6, <2>2, <3>1 DEF Complete
    <2>4. ASSUME NEW c \in Devices, There(c), endpoints[c].request \notin crossed PROVE Complete(c, At(c))'
        <3>1. Complete(c, At(c))
            BY <2>4 DEF OrderOK, CompleteOK
        <3>2. QED
            BY <1>5, <1>6, <3>1 DEF Complete
    <2>5. ASSUME NEW z \in transactions, z.answer \notin {"none", "error"} PROVE Of(z) \in Done(z.device)'
        BY <1>5, <2>2, <2>5 DEF OrderOK, CompleteOK
    <2>6. \A c \in Devices : endpoints[c].status # "OK"
        BY DEF OrderOK, CompleteOK
    <2>7. ASSUME NEW c \in Devices, NEW q \in copies[c], q[1] \notin crossed PROVE Complete(c, q)'
        BY <2>1, <2>7 DEF OrderOK, CompleteOK
    <2>8. QED
        BY <1>1, <1>6, <2>3, <2>4, <2>5, <2>6, <2>7 DEF CompleteOK
<1>11. QED
    BY <1>4, <1>7, <1>8, <1>9, <1>10 DEF OrderOK

LEMMA NextOrder == TypeOK /\ TypeOK' /\ Waiting /\ OrderOK /\ [Next]_vars => OrderOK'
<1> SUFFICES ASSUME TypeOK, TypeOK', Waiting, OrderOK, [Next]_vars PROVE OrderOK'
    OBVIOUS
<1>1. requests \in Nat /\ requests <= requests
    BY DEF TypeOK
<1>2. ASSUME NEW lost \in SUBSET transactions, Idle(lost) PROVE OrderOK'
    <2>1. PICK left \in SUBSET transactions : left = transactions \ lost
        OBVIOUS
    <2>2. /\ EndTurn(StepOn(lost), left) /\ endpointList' = endpointList /\ performed' = performed
          /\ requests <= requests' /\ crossed \subseteq crossed'
        BY <1>1, <1>2, <2>1 DEF Idle
    <2>3. StepOn(lost) \in [Devices -> Endpoint]
        BY StepOnType
    <2>4. \A d \in Devices : Kept(d, StepOn(lost)[d], left)
        BY <2>1, StepOnKept
    <2>5. QED
        BY <2>2, <2>3, <2>4, EndTurnOrder
<1>3. ASSUME NEW lost \in SUBSET transactions, NEW d \in Devices, NEW writable \in BOOLEAN,
             Request(d, writable, lost)
      PROVE  OrderOK'
    <2>1. PICK left \in SUBSET transactions : left = transactions \ lost
        OBVIOUS
    <2>2. StepOn(lost) \in [Devices -> Endpoint] /\ \A c \in Devices : Kept(c, StepOn(lost)[c], left)
        BY <2>1, StepOnType, StepOnKept
    <2>3. endpointList' = endpointList /\ performed' = performed
        BY <1>3 DEF Request
    <2>4. CASE Sections(d) = {}
        <3>1. EndTurn(StepOn(lost), left) /\ requests <= requests' /\ crossed \subseteq crossed'
            BY <1>1, <1>3, <2>1, <2>4 DEF Request
        <3>2. QED
            BY <2>2, <2>3, <3>1, EndTurnOrder
    <2>5. CASE Sections(d) # {}
        <3>1. PICK n, e : n = requests + 1 /\ e = NewEndpoint(n, writable)
            OBVIOUS
        <3>2. PICK eps : eps = [StepOn(lost) EXCEPT ![d] = e]
            OBVIOUS
        <3>3. /\ EndTurn(eps, left) /\ requests' = n
              /\ crossed' = IF \E x \in transactions : x.device = d THEN crossed \cup {n} ELSE crossed
            BY <1>3, <2>1, <2>5, <3>1, <3>2 DEF Request
        <3>4. requests <= requests' /\ crossed \subseteq crossed' /\ n \in Nat
            BY <1>1, <3>1, <3>3
        <3>5. e \in Endpoint /\ e.request = n /\ e.cmd = 1 /\ e.status = "NEW"
            BY <3>1, <3>4, NewEndpointType DEF NewEndpoint
        <3>6. /\ eps \in [Devices -> Endpoint] /\ eps[d] = e
              /\ \A c \in Devices : c # d => eps[c] = StepOn(lost)[c]
            BY <2>2, <3>2, <3>5
        <3>7. Renewed(d, eps[d])
            BY <3>1, <3>3, <3>5, <3>6 DEF Renewed
        <3>8. \A c \in Devices : Kept(c, eps[c], left) \/ Renewed(c, eps[c])
            BY <2>2, <3>6, <3>7
        <3>9. QED
            BY <2>3, <3>3, <3>4, <3>6, <3>8, EndTurnOrder
    <2>6. QED
        BY <2>4, <2>5
<1>4. ASSUME NEW lost \in SUBSET transactions, NEW x \in transactions, NEW tells \in Versions,
             Answered(x, tells, lost)
      PROVE  OrderOK'
    <2>1. PICK left \in SUBSET transactions : left = transactions \ (lost \cup {x})
        OBVIOUS
    <2>2. PICK e : e = Told(x.device, StepOn(lost)[x.device], x.answer, tells)
        OBVIOUS
    <2>3. PICK eps : eps = [StepOn(lost) EXCEPT ![x.device] = e]
        OBVIOUS
    <2>4. x.device \in Devices /\ StepOn(lost) \in [Devices -> Endpoint]
        BY StepOnType DEF TypeOK, Transaction
    <2>5. /\ EndTurn(eps, left) /\ endpointList' = endpointList /\ performed' = performed
          /\ requests <= requests' /\ crossed \subseteq crossed'
        BY <1>1, <1>4, <2>1, <2>2, <2>3 DEF Answered
    <2>6. e \in Endpoint
        BY <2>2, <2>4, ToldType
    <2>7. /\ eps \in [Devices -> Endpoint] /\ eps[x.device] = e
          /\ \A c \in Devices : c # x.device => eps[c] = StepOn(lost)[c]
        BY <2>3, <2>4, <2>6
    <2>8. Kept(x.device, e, left)
        BY <1>4, <2>1, <2>2, AnsweredKept
    <2>9. ASSUME NEW c \in Devices, c # x.device PROVE Kept(c, eps[c], left)
        <3>1. Kept(c, StepOn(lost)[c], transactions \ lost)
            BY StepOnKept
        <3>2. QED
            BY <2>1, <2>7, <2>9, <3>1 DEF Kept
    <2>10. QED
        BY <2>5, <2>7, <2>8, <2>9, EndTurnOrder
<1>5. ASSUME NEW x \in transactions, NEW ok \in BOOLEAN, Perform(x, ok) PROVE OrderOK'
    BY <1>5, PerformOrder
<1>6. ASSUME NEW d \in Devices, NEW p \in copies[d], PerformLate(d, p) PROVE OrderOK'
    BY <1>6, PerformLateOrder
<1>7. CASE UNCHANGED vars
    <2>1. UNCHANGED <<endpointList, endpoints, requests, crossed, transactions, copies, performed>>
        BY <1>7 DEF vars
    <2>2. NumbersOK' /\ AloneOK' /\ AheadOK'
        BY <2>1 DEF OrderOK, NumbersOK, AloneOK, AheadOK, There, Done, Passed, Of, At, Upto
    <2>3. /\ \A d : Done(d)' = Done(d) /\ At(d)' = At(d) /\ (There(d)' <=> There(d))
          /\ \A d, k : Kind(d, k)' = Kind(d, k)
          /\ \A x : Of(x)' = Of(x)
        BY <2>1 DEF Done, At, There, Kind, CommandList, Sections, Section, Of
    <2>4. CompleteOK'
        <3>1. ASSUME NEW x \in transactions, x.request \notin crossed PROVE Complete(x.device, Of(x))'
            <4>1. Complete(x.device, Of(x))
                BY <3>1 DEF OrderOK, CompleteOK
            <4>2. QED
                BY <2>3, <4>1 DEF Complete
        <3>2. ASSUME NEW d \in Devices, There(d), endpoints[d].request \notin crossed PROVE Complete(d, At(d))'
            <4>1. Complete(d, At(d))
                BY <3>2 DEF OrderOK, CompleteOK
            <4>2. QED
                BY <2>3, <4>1 DEF Complete
        <3>3. /\ \A x \in transactions : x.answer \notin {"none", "error"} => Of(x) \in Done(x.device)
              /\ \A d \in Devices : endpoints[d].status # "OK"
            BY DEF OrderOK, CompleteOK
        <3>4. ASSUME NEW d \in Devices, NEW p \in copies[d], p[1] \notin crossed PROVE Complete(d, p)'
            <4>1. Complete(d, p)
                BY <3>4 DEF OrderOK, CompleteOK
            <4>2. QED
                BY <2>3, <4>1 DEF Complete
        <3>5. QED
            BY <2>1, <2>3, <3>1, <3>2, <3>3, <3>4 DEF CompleteOK
    <2>5. InOrder' /\ ChangesFirst'
        BY <2>1, SameOrder
    <2>6. QED
        BY <2>2, <2>4, <2>5 DEF OrderOK
<1>8. QED
    BY <1>2, <1>3, <1>4, <1>5, <1>6, <1>7 DEF Next

LEMMA InitOrder == Init => OrderOK
<1> SUFFICES ASSUME Init PROVE OrderOK
    OBVIOUS
<1>1. /\ transactions = {} /\ requests = 0
      /\ \A d \in Devices : /\ endpoints[d].request = 0 /\ endpoints[d].status = "GONE"
                             /\ DOMAIN performed[d] = {} /\ copies[d] = {}
    BY DEF Init, Gone
<1>2. ASSUME NEW d \in Devices PROVE Passed(d) = {} /\ ~There(d)
    <2>1. Done(d) = {}
        BY <1>1 DEF Done
    <2>2. QED
        BY <1>1, <2>1 DEF Passed, There
<1>3. NumbersOK
    BY <1>1, <1>2 DEF NumbersOK
<1>4. AloneOK /\ AheadOK /\ CompleteOK
    BY <1>1, <1>2 DEF AloneOK, AheadOK, CompleteOK
<1>5. InOrder /\ ChangesFirst
    BY <1>1 DEF InOrder, ChangesFirst
<1>6. QED
    BY <1>3, <1>4, <1>5 DEF OrderOK

\* The two forms of the order.
LEMMA OrderKept == TypeOK /\ OrderOK => DoneInOrder
<1> SUFFICES ASSUME TypeOK, OrderOK, NEW d \in Devices, NEW j \in DOMAIN performed[d],
                    performed[d][j][1] \notin crossed
             PROVE  /\ \A p \in {performed[d][i] : i \in (j + 1)..Len(performed[d])} :
                          \/ p[3] \/ p[1] > performed[d][j][1]
                          \/ p[1] = performed[d][j][1] /\ p[2] >= performed[d][j][2]
                    /\ \A k \in 1..(performed[d][j][2] - 1) :
                          Kind(d, k) \in Changes =>
                              \E p \in {performed[d][i] : i \in 1..(j - 1)} : p[1] = performed[d][j][1] /\ p[2] = k
    BY Zenon DEF DoneInOrder
<1>1. DOMAIN performed[d] = 1..Len(performed[d]) /\ Len(performed[d]) \in Nat
    BY LenProperties DEF TypeOK
<1>2. \A i \in (j + 1)..Len(performed[d]) : i \in DOMAIN performed[d] /\ j < i
    BY <1>1
<1>3. \A i \in DOMAIN performed[d] : i < j => i \in 1..(j - 1)
    BY <1>1
<1>4. \A i \in DOMAIN performed[d] : performed[d][i] \in Nat \X Nat \X BOOLEAN
    BY <1>1 DEF TypeOK
<1>5. ASSUME NEW i \in (j + 1)..Len(performed[d]), ~performed[d][i][3]
      PROVE  \/ performed[d][i][1] > performed[d][j][1]
             \/ performed[d][i][1] = performed[d][j][1] /\ performed[d][i][2] >= performed[d][j][2]
    <2>1. Upto(performed[d][j], performed[d][i])
        BY <1>2, <1>5 DEF OrderOK, InOrder
    <2>2. \A p, q \in Nat \X Nat \X BOOLEAN : Upto(p, q) => q[1] > p[1] \/ (q[1] = p[1] /\ q[2] >= p[2])
        BY DEF Upto
    <2>3. QED
        BY <1>2, <1>4, <2>1, <2>2
<1>6. ASSUME NEW k \in 1..(performed[d][j][2] - 1), Kind(d, k) \in Changes
      PROVE  \E p \in {performed[d][i] : i \in 1..(j - 1)} : p[1] = performed[d][j][1] /\ p[2] = k
    <2>1. PICK i \in DOMAIN performed[d] :
             i < j /\ performed[d][i][1] = performed[d][j][1] /\ performed[d][i][2] = k
        BY <1>6 DEF OrderOK, ChangesFirst
    <2>2. QED
        BY <1>3, <2>1
<1>7. QED
    BY <1>5, <1>6

\* For any file, any number of devices and any crossing of requests, losses,
\* repetitions and copies that come late: of a request that crossed none, every
\* command a device does, late or not, comes after all deletes and writes before
\* it in the file have been done, Finish last; and it comes in the order of the
\* file, unless it is a late copy (prv_bootstrap_callback, the loop in main).
THEOREM OrderOfTheFile == Spec => []DoneInOrder
<1>1. Init => Waiting
    BY DEF Init, Waiting, Waits, Gone
<1>2. QED
    BY <1>1, InitOrder, NextWaits, NextOrder, OrderKept, TypeCorrect, PTL DEF Spec

-----------------------------------------------------------------------------
(* Client: induction *)

\* Induction up to N, for a set of numbers.
LEMMA Induction ==
    ASSUME NEW N \in Nat, NEW S, 0 \in S,
           \A n \in 0..N : n \in S /\ n # N => n + 1 \in S
    PROVE  \A n \in 0..N : n \in S
<1>1. SUFFICES ASSUME {n \in 0..N : n \notin S} # {} PROVE FALSE
    OBVIOUS
<1> DEFINE T == {n \in 0..N : n \notin S}
<1>0. T \in SUBSET Nat /\ T # {}
    BY <1>1
<1>2. PICK k \in T : \A j \in T : k <= j
    <2>. HIDE DEF T
    <2>. QED
        BY <1>0, FirstOf
<1>3. k # 0 /\ k \in 0..N /\ k \notin S
    BY <1>2
<1>4. k - 1 \in 0..N /\ k - 1 # N /\ (k - 1) + 1 = k
    BY <1>3
<1>5. k - 1 \in S
    BY <1>2, <1>4
<1>6. QED
    BY <1>3, <1>4, <1>5

-----------------------------------------------------------------------------
(* What FoldLeft computes: SequencesExt takes the greatest index away from a *)
(* set of indices, and an iteration over all sets of them has a solution.    *)

\* The greatest index of a set with n in it, when there is none above n.
LEMMA GreatestOf ==
    ASSUME NEW n \in Nat \ {0}, NEW s \in SUBSET (1..n), n \in s
    PROVE  Max(s) = n
<1>1. \A y \in s : n >= y
    OBVIOUS
<1>2. \A x \in s : (\A y \in s : x >= y) => x = n
    OBVIOUS
<1>3. QED
    BY <1>1, <1>2 DEF Max

\* Max picks a member of a set of indices.
LEMMA GreatestExists ==
    ASSUME NEW n \in Nat, NEW s \in SUBSET (1..n), s # {}
    PROVE  Max(s) \in s
<1> DEFINE T == {n - x : x \in s}
<1>1. T \in SUBSET Nat /\ T # {}
    <2>1. \A x \in s : n - x \in Nat
        OBVIOUS
    <2>2. PICK x \in s : TRUE
        OBVIOUS
    <2>3. n - x \in T
        BY <2>2
    <2>4. QED
        BY <2>1, <2>3
<1>2. PICK k \in T : \A j \in T : k <= j
    <2>. HIDE DEF T
    <2>. QED
        BY <1>1, FirstOf
<1>3. PICK x \in s : k = n - x
    BY <1>2
<1>4. \A y \in s : x >= y
    <2>1. TAKE y \in s
    <2>2. n - x <= n - y
        BY <1>2, <1>3
    <2>3. x \in 1..n /\ y \in 1..n
        OBVIOUS
    <2>4. QED
        BY <2>2, <2>3
<1>5. QED
    BY <1>4 DEF Max

\* it iterates the functions g[1], ..., g[N] from b on.
Iterates(it, N, b, g) ==
    \A s \in SUBSET (1..N) :
        it[s] = IF s = {} THEN b ELSE g[Max(s)][it[s \ {Max(s)}]]

\* There is an iteration of any functions, by induction on their number.
LEMMA IterationExists ==
    ASSUME NEW N \in Nat, NEW D, NEW b \in D, NEW g \in [1..N -> [D -> D]]
    PROVE  \E it \in [SUBSET (1..N) -> D] : Iterates(it, N, b, g)
<1> DEFINE Solves(it, n) == \A s \in SUBSET (1..n) :
                it[s] = IF s = {} THEN b ELSE g[Max(s)][it[s \ {Max(s)}]]
           S == {n \in 0..N : \E it \in [SUBSET (1..n) -> D] : Solves(it, n)}
<1>1. 0 \in S
    <2>1. SUBSET (1..0) = {{}}
        OBVIOUS
    <2>2. Solves([s \in SUBSET (1..0) |-> b], 0)
        BY <2>1
    <2>3. [s \in SUBSET (1..0) |-> b] \in [SUBSET (1..0) -> D]
        OBVIOUS
    <2>4. 0 \in 0..N
        OBVIOUS
    <2>. HIDE DEF Solves
    <2>5. QED
        BY <2>2, <2>3, <2>4
<1>2. ASSUME NEW n \in 0..N, n \in S, n # N PROVE n + 1 \in S
    <2>1. PICK it \in [SUBSET (1..n) -> D] : Solves(it, n)
        BY <1>2
    <2> DEFINE m == n + 1
               next == [s \in SUBSET (1..m) |-> IF m \in s THEN g[m][it[s \ {m}]] ELSE it[s]]
    <2>2. m \in 1..N /\ m \in Nat \ {0} /\ m \in 0..N
        BY <1>2
    <2>3. \A s \in SUBSET (1..m) : m \notin s => s \in SUBSET (1..n)
        OBVIOUS
    <2>4. \A s \in SUBSET (1..m) : s \ {m} \in SUBSET (1..n)
        OBVIOUS
    <2>. HIDE DEF m
    <2>5. next \in [SUBSET (1..m) -> D]
        BY <2>1, <2>2, <2>3, <2>4
    <2>6. ASSUME NEW s \in SUBSET (1..m)
          PROVE  next[s] = IF s = {} THEN b ELSE g[Max(s)][next[s \ {Max(s)}]]
        <3>1. CASE m \in s
            <4>1. Max(s) = m
                BY <2>2, <3>1, GreatestOf
            <4>2. next[s \ {m}] = it[s \ {m}]
                BY <2>4
            <4>3. QED
                BY <3>1, <4>1, <4>2
        <3>2. CASE m \notin s
            <4>1. next[s] = it[s] /\ s \in SUBSET (1..n)
                BY <2>3, <3>2
            <4>2. next[s \ {Max(s)}] = it[s \ {Max(s)}]
                BY <3>2
            <4>3. QED
                BY <2>1, <4>1, <4>2
        <3>3. QED
            BY <3>1, <3>2
    <2>7. Solves(next, m)
        BY <2>6
    <2>8. m \in S
        BY <2>2, <2>5, <2>7
    <2>9. QED
        BY <2>8 DEF m
<1>. HIDE DEF S
<1>3. N \in S
    <2>1. \A n \in 0..N : n \in S
        BY <1>1, <1>2, Induction
    <2>2. QED
        BY <2>1
<1>4. QED
    BY <1>3 DEF S, Iterates

\* What the iterations pass on the way, one element after the other.
Passes(h, N, b, g) == h[0] = b /\ \A n \in 1..N : h[n] = g[n][h[n - 1]]

\* Where it stays in D, it iterates g.
IteratesIn(D, it, N, b, g) ==
    /\ it[{}] = b
    /\ \A s \in SUBSET (1..N) : s # {} /\ it[s \ {Max(s)}] \in D =>
            it[s] = g[Max(s)][it[s \ {Max(s)}]]

\* An iteration up to N passes through N + 1 elements, each from the one before.
LEMMA PassesOf ==
    ASSUME NEW N \in Nat, NEW D, NEW b \in D, NEW g \in [1..N -> [D -> D]],
           NEW it, IteratesIn(D, it, N, b, g)
    PROVE  \E h \in [0..N -> D] : h[N] = it[1..N] /\ Passes(h, N, b, g)
<1> DEFINE h == [n \in 0..N |-> it[1..n]]
           S == {n \in 0..N : h[n] \in D}
<1>1. h[0] = b
    <2>1. 1..0 = {} /\ 0 \in 0..N
        OBVIOUS
    <2>2. QED
        BY <2>1 DEF IteratesIn
<1>2. ASSUME NEW n \in 0..N, h[n] \in D, n # N
      PROVE  n + 1 \in 0..N /\ h[n + 1] = g[n + 1][h[n]] /\ h[n + 1] \in D
    <2>1. n + 1 \in 1..N /\ n + 1 \in 0..N /\ n + 1 \in Nat \ {0}
        BY <1>2
    <2>2. 1..(n + 1) \in SUBSET (1..N) /\ n + 1 \in 1..(n + 1)
        BY <2>1
    <2>3. Max(1..(n + 1)) = n + 1
        BY <2>1, <2>2, GreatestOf
    <2>4. (1..(n + 1)) \ {n + 1} = 1..n
        OBVIOUS
    <2>5. it[1..(n + 1)] = g[n + 1][it[1..n]]
        <3>1. 1..(n + 1) # {} /\ it[1..n] \in D
            BY <1>2, <2>2
        <3>2. QED
            BY <2>2, <2>3, <2>4, <3>1 DEF IteratesIn
    <2>6. QED
        BY <1>2, <2>1, <2>5
<1>3. \A n \in 0..N : n \in S
    <2>1. 0 \in S
        BY <1>1
    <2>2. \A n \in 0..N : n \in S /\ n # N => n + 1 \in S
        BY <1>2
    <2>. HIDE DEF S
    <2>3. QED
        BY <2>1, <2>2, Induction
<1>4. h \in [0..N -> D] /\ h[N] = it[1..N]
    BY <1>3
<1>5. \A n \in 1..N : h[n] = g[n][h[n - 1]]
    <2>1. TAKE n \in 1..N
    <2>2. n - 1 \in 0..N /\ n - 1 # N /\ (n - 1) + 1 = n
        OBVIOUS
    <2>3. h[n - 1] \in D
        BY <1>3, <2>2
    <2>. HIDE DEF h
    <2>4. QED
        BY <1>2, <2>2, <2>3
<1>. HIDE DEF h
<1>6. QED
    BY <1>1, <1>4, <1>5 DEF Passes

\* The growing delay of prv_handleRegistrationAttemptFailure is a number.
LEMMA PowerType == \A n \in Nat : 2 ^ n \in Nat
<1>1. TAKE n \in Nat
<1>2. IsFiniteSet(1..n) /\ Cardinality(1..n) = n
    BY FS_Interval
<1>3. IsFiniteSet(SUBSET (1..n)) /\ Cardinality(SUBSET (1..n)) = 2 ^ n
    BY <1>2, FS_SUBSET
<1>4. QED
    BY <1>3, FS_CardinalityType

-----------------------------------------------------------------------------
(* The list of servers *)

\* A set of numbers can be listed in order.
LEMMA Listing ==
    ASSUME NEW N \in Nat
    PROVE  \A S \in SUBSET Nat : IsFiniteSet(S) /\ Cardinality(S) = N =>
              \E q \in [1..N -> S] : \A i, j \in 1..N : i < j => q[i] < q[j]
<1> DEFINE Ordered(q, n) == \A i, j \in 1..n : i < j => q[i] < q[j]
           Listable(n) == \A S \in SUBSET Nat : IsFiniteSet(S) /\ Cardinality(S) = n =>
                             \E q \in [1..n -> S] : Ordered(q, n)
           I == {n \in 0..N : Listable(n)}
<1>1. 0 \in I
    <2>1. ASSUME NEW S PROVE \E q \in [1..0 -> S] : Ordered(q, 0)
        <3>1. [i \in 1..0 |-> 0] \in [1..0 -> S] /\ Ordered([i \in 1..0 |-> 0], 0)
            OBVIOUS
        <3>2. QED
            BY <3>1
    <2>2. QED
        BY <2>1
<1>2. ASSUME NEW n \in 0..N, n \in I, n # N PROVE n + 1 \in I
    <2>1. ASSUME NEW S \in SUBSET Nat, IsFiniteSet(S), Cardinality(S) = n + 1
          PROVE  \E q \in [1..(n + 1) -> S] : Ordered(q, n + 1)
        <3>1. S # {}
            BY <2>1, FS_EmptySet
        <3>2. PICK m \in S : \A j \in S : m <= j
            BY <3>1, FirstOf
        <3>3. IsFiniteSet(S \ {m}) /\ Cardinality(S \ {m}) = n
            BY <2>1, <3>2, FS_RemoveElement
        <3>4. PICK q \in [1..n -> S \ {m}] : Ordered(q, n)
            <4>1. S \ {m} \in SUBSET Nat
                OBVIOUS
            <4>2. Listable(n)
                BY <1>2
            <4>3. QED
                BY <3>3, <4>1, <4>2
        <3> DEFINE r == [i \in 1..(n + 1) |-> IF i = 1 THEN m ELSE q[i - 1]]
        <3>5. \A i \in 1..(n + 1) : i # 1 => i - 1 \in 1..n
            OBVIOUS
        <3>6. r \in [1..(n + 1) -> S]
            BY <3>4, <3>5
        <3>7. ASSUME NEW i \in 1..(n + 1), NEW j \in 1..(n + 1), i < j PROVE r[i] < r[j]
            <4>1. j # 1 /\ j - 1 \in 1..n /\ r[j] = q[j - 1]
                BY <3>5, <3>7
            <4>2. CASE i = 1
                <5>1. q[j - 1] \in S \ {m}
                    BY <3>4, <4>1
                <5>2. m <= q[j - 1] /\ q[j - 1] # m /\ q[j - 1] \in Nat /\ m \in Nat
                    BY <3>2, <5>1
                <5>3. QED
                    BY <4>1, <4>2, <5>2
            <4>3. CASE i # 1
                <5>1. i - 1 \in 1..n /\ i - 1 < j - 1 /\ r[i] = q[i - 1]
                    BY <3>5, <3>7, <4>3
                <5>2. QED
                    BY <3>4, <4>1, <5>1
            <4>4. QED
                BY <4>2, <4>3
        <3>. HIDE DEF r
        <3>8. QED
            BY <3>6, <3>7
    <2>2. Listable(n + 1)
        BY <2>1
    <2>3. n + 1 \in 0..N
        BY <1>2
    <2>. HIDE DEF Listable
    <2>4. QED
        BY <2>2, <2>3
<1>3. N \in I
    <2>. HIDE DEF I
    <2>1. \A n \in 0..N : n \in I
        BY <1>1, <1>2, Induction
    <2>2. QED
        BY <2>1
<1>4. QED
    BY <1>3

\* Every server is somewhere on the list.
LEMMA ServerListFacts ==
    /\ Cardinality(Servers) \in Nat
    /\ ServerList \in [1..Cardinality(Servers) -> Servers]
    /\ \A s \in Servers : \E i \in 1..Cardinality(Servers) : ServerList[i] = s
<1> DEFINE n == Cardinality(Servers)
           Ordered(q) == \A i, j \in 1..n : i < j => q[i] < q[j]
<1>1. IsFiniteSet(Servers) /\ Servers \in SUBSET Nat
    BY ConstantsAssumption
<1>2. n \in Nat
    BY <1>1, FS_CardinalityType
<1>3. \E q \in [1..n -> Servers] : Ordered(q)
    <2>. HIDE DEF n
    <2>. QED
        BY <1>1, <1>2, Listing DEF n
<1>4. ServerList \in [1..n -> Servers] /\ Ordered(ServerList)
    <2>1. ServerList = CHOOSE q \in [1..n -> Servers] : Ordered(q)
        BY Zenon DEF ServerList
    <2>. HIDE DEF Ordered, n
    <2>2. QED
        BY <1>3, <2>1
<1>5. ServerList \in Injection(1..n, Servers)
    <2>1. ASSUME NEW i \in 1..n, NEW j \in 1..n, ServerList[i] = ServerList[j] PROVE i = j
        <3>1. ServerList[i] \in Nat
            BY <1>1, <1>4
        <3>2. ~(i < j) /\ ~(j < i)
            BY <1>4, <2>1, <3>1
        <3>3. QED
            BY <1>2, <3>2
    <2>2. QED
        BY <1>4, <2>1 DEF Injection, IsInjective
<1>6. Cardinality(1..n) = n
    BY <1>2, FS_Interval
<1>7. ServerList \in Surjection(1..n, Servers)
    BY <1>1, <1>5, <1>6, FS_Injection
<1>8. QED
    BY <1>2, <1>4, <1>7 DEF Surjection

-----------------------------------------------------------------------------
(* Client: contexts *)

\* The states of a client that is not registering.
IdleStates == {"INITIAL", "BOOTSTRAP_REQUIRED", "BOOTSTRAPPING"}

\* The bootstrap has a connection only while it is under way.
SessionOK(c) ==
    c.bootstrap.sessionH =>
        /\ c.bootstrap.status \in BsPending
        /\ c.state \in {"BOOTSTRAP_REQUIRED", "BOOTSTRAPPING"}
\* The servers that were tagged have been freed (prv_refreshServerList).
Cleaned(c) ==
    c.state \in {"REGISTER_REQUIRED", "REGISTERING", "READY"} =>
        \A s \in Servers : ~c.server[s].dirty
\* The requests made so far are what attempt and sequence say: at least one for each
\* sequence and for each attempt of the last, and as many as the instance asks for
\* while that is what it was.
CountOK(x, f) ==
    /\ x.status = "none" => ~x.location
    /\ x.status = "REG_PENDING" =>
            /\ x.attempt >= 1 /\ x.sequence >= 1 /\ x.tries + 1 >= x.attempt + x.sequence
            /\ ~x.rewritten =>
                /\ x.attempt \in 1..f.attempts /\ x.sequence \in 1..f.sequences
                /\ x.tries + f.attempts = x.sequence * f.attempts + x.attempt
    /\ x.status = "REG_HOLD_OFF" =>
            \/ /\ x.attempt = 0 /\ x.tries >= x.sequence
               /\ ~x.rewritten => x.sequence < f.sequences /\ x.tries = x.sequence * f.attempts
            \/ /\ x.attempt >= 1 /\ x.sequence >= 1 /\ x.tries + 1 >= x.attempt + x.sequence
               /\ ~x.rewritten =>
                    /\ x.attempt \in 1..(f.attempts - 1) /\ x.sequence \in 1..f.sequences
                    /\ x.tries + f.attempts = x.sequence * f.attempts + x.attempt
\* Every server has made the requests its counters say.
Counted(c) == \A s \in Servers : CountOK(c.server[s], Config[s])
\* A server has its lifetime from an account, and was made from the instance as it
\* is now: but for those that are tagged, or taken back.
Origin(x, s) ==
    x.status # "none" =>
        /\ \E f \in Accounts : x.lifetime = f.lifetime
        /\ ~x.dirty /\ ~x.astray => x.made = objects.written[s] /\ s \in objects.security
Made(c) == \A s \in Servers : Origin(c.server[s], s)

\* An instance of the Security Object is as in the backup, or has been written since.
Grown(s) ==
    \/ objects.written[s] = backup.written[s] /\ (s \in objects.security => s \in backup.security)
    \/ objects.written[s] > backup.written[s]
\* The objects and their backup.
Held ==
    /\ objects \in Objects /\ backup \in Objects
    /\ previousState = "BOOTSTRAPPING" => \A s \in Servers : Grown(s)

\* The contexts the client can be in between two handlers, the objects being what
\* they are.
Sound == {c \in Contexts : Held /\ SessionOK(c) /\ Cleaned(c) /\ Counted(c) /\ Made(c)}

\* What a handler leaves of a server's record.
SameServer(x, y) ==
    /\ y.dirty = x.dirty /\ y.lifetime = x.lifetime /\ y.made = x.made /\ y.astray = x.astray
    /\ y.rewritten => x.rewritten
    /\ x.status = "none" => y.status = "none"

\* The earlier of two times.
LEMMA LeastOfTwo ==
    ASSUME NEW a \in Nat, NEW b \in Nat
    PROVE  Least({a, b}) \in Nat /\ Least({a, b}) \in {a, b} /\ Least({a, b}) <= a /\ Least({a, b}) <= b
BY DEF Least

\* What reading a Server Object instance gives.
LEMMA ConfigType ==
    ASSUME Held, NEW s \in Servers
    PROVE  /\ Config[s] \in Configs /\ s \in Instances /\ s \in Nat /\ s # Bootstrap
           /\ Config[s].attempts \in Nat \ {0} /\ Config[s].sequences \in Nat \ {0}
           /\ Config[s].attemptDelay \in Nat /\ Config[s].sequenceDelay \in Nat
           /\ Config[s].initialDelay \in Nat /\ Config[s].lifetime \in Nat \ {0}
           /\ Config[s].bootstrap \in BOOLEAN
BY ConstantsAssumption DEF Held, Objects, Config, Configs, Instances

\* The servers among the instances.
LEMMA ServerIds ==
    ASSUME NEW s \in Servers
    PROVE  s \in Instances /\ s \in Nat /\ s # Bootstrap
BY ConstantsAssumption DEF Instances

\* The types of the fields of a context.
LEMMA FieldTypes ==
    ASSUME NEW c \in Contexts
    PROVE  /\ c.state \in States /\ c.bootstrap \in BootstrapRecords
           /\ c.transactionList \in Seq(Requests) /\ c.corrupt \in BOOLEAN
           /\ \A s \in Servers :
                /\ c.server[s] \in ServerRecords /\ c.server[s].status \in ServerStatuses
                /\ c.server[s].left \in Nat /\ c.server[s].attempt \in Nat
                /\ c.server[s].sequence \in Nat /\ c.server[s].dirty \in BOOLEAN
                /\ c.server[s].sessionH \in BOOLEAN /\ c.server[s].location \in BOOLEAN
                /\ c.server[s].tries \in Nat /\ c.server[s].age \in Nat
                /\ c.server[s].lifetime \in Nat /\ c.server[s].made \in Nat
                /\ c.server[s].rewritten \in BOOLEAN /\ c.server[s].astray \in BOOLEAN
                /\ c.server[s].changed \in BOOLEAN
           /\ c.timeout \in Nat /\ c.timeout <= MaxSleep
           /\ c.bootstrap.status \in BsStatuses /\ c.bootstrap.left \in Nat
           /\ c.bootstrap.dirty \in BOOLEAN /\ c.bootstrap.sessionH \in BOOLEAN
BY DEF Contexts, ServerRecords, BootstrapRecords

\* A context is sound by its state, its servers and its bootstrap.
LEMMA SameSound ==
    ASSUME NEW c \in Sound, NEW d \in Contexts,
           d.state = c.state, d.server = c.server, d.bootstrap = c.bootstrap
    PROVE  d \in Sound
BY DEF Sound, SessionOK, Cleaned, Counted, Made

\* A handler lowers the timeout, and leaves the rest alone.
LEMMA WithinFacts ==
    ASSUME NEW c \in Contexts, NEW n \in Nat
    PROVE  /\ Within(c, n) \in Contexts
           /\ Within(c, n).state = c.state /\ Within(c, n).server = c.server
           /\ Within(c, n).bootstrap = c.bootstrap /\ Within(c, n).corrupt = c.corrupt
           /\ Within(c, n).transactionList = c.transactionList
           /\ Within(c, n).timeout <= n /\ Within(c, n).timeout <= c.timeout
           /\ Within(c, n).timeout \in {n, c.timeout}
<1>1. c.timeout \in Nat /\ c.timeout <= MaxSleep /\ MaxSleep \in Nat
    BY FieldTypes, ConstantsAssumption
<1> DEFINE t == Least({c.timeout, n})
<1>2. t \in Nat /\ t <= n /\ t <= c.timeout /\ t \in {n, c.timeout}
    BY <1>1, LeastOfTwo
<1>3. Within(c, n) = [c EXCEPT !.timeout = t]
    BY DEF Within
<1>. HIDE DEF t
<1>4. t \in 0..MaxSleep
    BY <1>1, <1>2
<1>5. QED
    BY <1>2, <1>3, <1>4 DEF Contexts

\* A request is added, and the rest is left alone.
LEMMA SendFacts ==
    ASSUME NEW c \in Contexts, NEW i \in Instances, NEW kind \in RequestKinds,
           i = Bootstrap <=> kind = "bootstrap"
    PROVE  /\ Send(c, i, kind) \in Contexts
           /\ Send(c, i, kind).state = c.state /\ Send(c, i, kind).server = c.server
           /\ Send(c, i, kind).bootstrap = c.bootstrap /\ Send(c, i, kind).corrupt = c.corrupt
           /\ Send(c, i, kind).timeout = c.timeout
<1>1. NewRequest(i, kind) \in Requests
    BY ConstantsAssumption DEF NewRequest, Requests
<1>2. Append(c.transactionList, NewRequest(i, kind)) \in Seq(Requests)
    BY <1>1, FieldTypes, AppendProperties
<1>3. QED
    BY <1>2 DEF Send, Contexts

\* Requests lose their connection or their server, and the rest is left alone.
LEMMA CutFacts ==
    ASSUME NEW c \in Contexts, NEW I, NEW link \in {"open", "closed", "freed"}
    PROVE  /\ Cut(c, I, link) \in Contexts
           /\ Cut(c, I, link).state = c.state /\ Cut(c, I, link).server = c.server
           /\ Cut(c, I, link).bootstrap = c.bootstrap /\ Cut(c, I, link).corrupt = c.corrupt
           /\ Cut(c, I, link).timeout = c.timeout
<1> DEFINE q == c.transactionList
           r == [k \in DOMAIN q |-> IF q[k].server \in I /\ q[k].link # "freed"
                                    THEN [q[k] EXCEPT !.link = link] ELSE q[k]]
<1>1. q \in Seq(Requests) /\ DOMAIN q = 1..Len(q) /\ Len(q) \in Nat
    BY FieldTypes, LenProperties
<1>2. \A k \in DOMAIN q : q[k] \in Requests
    BY <1>1, ElementOfSeq
<1>3. \A k \in DOMAIN q : r[k] \in Requests
    BY <1>2 DEF Requests
<1>4. r \in [1..Len(q) -> Requests]
    BY <1>1, <1>3
<1>5. r \in Seq(Requests)
    BY <1>1, <1>4, SeqDef
<1>6. Cut(c, I, link) = [c EXCEPT !.transactionList = r]
    BY DEF Cut
<1>. HIDE DEF r, q
<1>7. QED
    BY <1>5, <1>6 DEF Contexts

\* Another record of one server.
LEMMA ServerChange ==
    ASSUME NEW c \in Sound, NEW s \in Servers, NEW x \in ServerRecords,
           CountOK(x, Config[s]), SameServer(c.server[s], x)
    PROVE  [c EXCEPT !.server[s] = x] \in Sound
<1> DEFINE d == [c EXCEPT !.server[s] = x]
<1>1. c \in Contexts
    BY DEF Sound
<1>2. d \in Contexts /\ d.state = c.state /\ d.bootstrap = c.bootstrap
    BY <1>1 DEF Contexts
<1>3. d.server[s] = x /\ \A t \in Servers : t # s => d.server[t] = c.server[t]
    BY <1>1 DEF Contexts
<1>. HIDE DEF d
<1>4. SessionOK(d) /\ Cleaned(d)
    BY <1>2, <1>3 DEF Sound, SessionOK, Cleaned, SameServer
<1>5. Counted(d)
    BY <1>2, <1>3 DEF Sound, Counted
<1>6. Made(d)
    BY <1>2, <1>3 DEF Sound, Made, Origin, SameServer
<1>7. QED
    BY <1>2, <1>4, <1>5, <1>6 DEF Sound, d

-----------------------------------------------------------------------------
(* Client: registration_start and the failure handlers *)

\* A server that is being registered, or has been given up after the requests its
\* instance asks for.
Pursued(x, f) ==
    \/ x.status \in {"REG_PENDING", "REG_HOLD_OFF", "REGISTERED"}
    \/ /\ x.status = "REG_FAILED" /\ x.tries + 1 >= f.attempts + f.sequences
       /\ ~x.rewritten => x.tries = f.attempts * f.sequences

\* The statuses registration_start looks for.
StartsOf(restartFailed) == IF restartFailed THEN {"DEREGISTERED", "REG_FAILED"} ELSE {"DEREGISTERED"}

\* registration_start resets the counters of the servers it looks for, and has some
\* of them wait (registration.c).
LEMMA StartFacts ==
    ASSUME Held, NEW c \in Contexts, NEW restartFailed \in BOOLEAN
    PROVE  LET d == RegistrationStart(c, restartFailed)
           IN  /\ d \in Contexts
               /\ d.state = c.state /\ d.bootstrap = c.bootstrap /\ d.corrupt = c.corrupt
               /\ d.transactionList = c.transactionList /\ d.timeout = c.timeout
               /\ \A s \in Servers :
                    \/ d.server[s] = c.server[s]
                    \/ /\ c.server[s].status \in StartsOf(restartFailed)
                       /\ d.server[s].status \in {c.server[s].status, "REG_HOLD_OFF"}
                       /\ d.server[s].attempt = 0 /\ d.server[s].sequence = 0
                       /\ d.server[s].tries = 0 /\ SameServer(c.server[s], d.server[s])
<1> DEFINE due == {s \in Servers : \/ c.server[s].status = "DEREGISTERED"
                                   \/ restartFailed /\ c.server[s].status = "REG_FAILED"}
           ordered == {s \in due : Config[s].ordered}
           before(s, t) == \/ Config[s].order < Config[t].order
                           \/ Config[s].order = Config[t].order /\ s <= t
           started == {s \in due : s \in ordered => \A t \in ordered : before(s, t)}
           reset(s) == [c.server[s] EXCEPT !.attempt = 0, !.sequence = 0, !.tries = 0,
                                           !.rewritten = FALSE]
           x == [s \in Servers |-> CASE s \in started -> StartRegistration(reset(s), s)
                                     [] s \in due \ started -> reset(s)
                                     [] OTHER -> c.server[s]]
<1>1. RegistrationStart(c, restartFailed) = [c EXCEPT !.server = x]
    BY DEF RegistrationStart
<1>2. ASSUME NEW s \in Servers
      PROVE  /\ x[s] \in ServerRecords
             /\ \/ x[s] = c.server[s]
                \/ /\ c.server[s].status \in StartsOf(restartFailed)
                   /\ x[s].status \in {c.server[s].status, "REG_HOLD_OFF"}
                   /\ x[s].attempt = 0 /\ x[s].sequence = 0
                   /\ x[s].tries = 0 /\ SameServer(c.server[s], x[s])
    <2>1. c.server[s] \in ServerRecords
        BY FieldTypes
    <2>2. /\ reset(s) \in ServerRecords /\ reset(s).status = c.server[s].status
          /\ reset(s).attempt = 0 /\ reset(s).sequence = 0 /\ reset(s).tries = 0
          /\ SameServer(c.server[s], reset(s))
        BY <2>1 DEF ServerRecords, SameServer
    <2> DEFINE y == StartRegistration(reset(s), s)
    <2>3. /\ y \in ServerRecords /\ y.status = "REG_HOLD_OFF"
          /\ y.attempt = 0 /\ y.sequence = 0 /\ y.tries = 0
          /\ y.dirty = reset(s).dirty /\ y.lifetime = reset(s).lifetime
          /\ y.made = reset(s).made /\ y.astray = reset(s).astray
          /\ y.rewritten = reset(s).rewritten
        BY <2>2, ConfigType DEF StartRegistration, ServerRecords, ServerStatuses, Registering
    <2>4. /\ s \in due => c.server[s].status \in StartsOf(restartFailed)
          /\ s \in due => SameServer(c.server[s], y)
        BY <2>2, <2>3 DEF StartsOf, SameServer
    <2>5. s \in started => s \in due
        OBVIOUS
    <2>6. \/ s \in due /\ x[s] = y
          \/ s \in due /\ x[s] = reset(s)
          \/ x[s] = c.server[s]
        BY <2>5
    <2> DEFINE status == c.server[s].status
               Reset(z) == /\ status \in StartsOf(restartFailed)
                           /\ z.status \in {status, "REG_HOLD_OFF"}
                           /\ z.attempt = 0 /\ z.sequence = 0
                           /\ z.tries = 0 /\ SameServer(c.server[s], z)
    <2>. HIDE DEF x, y, reset, due, started
    <2>7. s \in due => Reset(y) /\ Reset(reset(s))
        BY <2>2, <2>3, <2>4
    <2>. HIDE DEF Reset
    <2>8. x[s] \in ServerRecords /\ (x[s] = c.server[s] \/ Reset(x[s]))
        BY <2>1, <2>2, <2>3, <2>6, <2>7
    <2>9. QED
        BY <2>8 DEF Reset
<1>3. x \in [Servers -> ServerRecords]
    BY <1>2
<1>. HIDE DEF x
<1>4. QED
    BY <1>1, <1>2, <1>3 DEF Contexts

\* registration_start keeps a context sound.
LEMMA StartSound ==
    ASSUME NEW c \in Sound, NEW restartFailed \in BOOLEAN
    PROVE  RegistrationStart(c, restartFailed) \in Sound
<1> DEFINE d == RegistrationStart(c, restartFailed)
<1>1. c \in Contexts /\ Held
    BY DEF Sound
<1>2. /\ d \in Contexts /\ d.state = c.state /\ d.bootstrap = c.bootstrap
      /\ \A s \in Servers :
            \/ d.server[s] = c.server[s]
            \/ /\ c.server[s].status \in StartsOf(restartFailed)
               /\ d.server[s].status \in {c.server[s].status, "REG_HOLD_OFF"}
               /\ d.server[s].attempt = 0 /\ d.server[s].sequence = 0
               /\ d.server[s].tries = 0 /\ SameServer(c.server[s], d.server[s])
    BY <1>1, StartFacts
<1>. HIDE DEF d
<1>3. SessionOK(d) /\ Cleaned(d) /\ Made(d)
    BY <1>2 DEF Sound, SessionOK, Cleaned, Made, Origin, SameServer
<1>4. ASSUME NEW s \in Servers PROVE CountOK(d.server[s], Config[s])
    <2>1. CASE d.server[s] = c.server[s]
        BY <2>1 DEF Sound, Counted
    <2>2. CASE /\ c.server[s].status \in StartsOf(restartFailed)
               /\ d.server[s].status \in {c.server[s].status, "REG_HOLD_OFF"}
               /\ d.server[s].attempt = 0 /\ d.server[s].sequence = 0
               /\ d.server[s].tries = 0
        <3>1. d.server[s].status \notin {"none", "REG_PENDING"}
            BY <2>2 DEF StartsOf
        <3>2. 0 < Config[s].sequences /\ 0 = 0 * Config[s].attempts
            BY <1>1, ConfigType
        <3>3. QED
            BY <2>2, <3>1, <3>2 DEF CountOK
    <2>3. QED
        BY <1>2, <2>1, <2>2
<1>5. QED
    BY <1>2, <1>3, <1>4 DEF Sound, Counted, d

-----------------------------------------------------------------------------
\* What a handler may do to the servers that are not registered.
Follows(c, d) ==
    \A s \in Servers :
        /\ Pursued(c.server[s], Config[s]) =>
                Pursued(d.server[s], Config[s]) /\ (d.server[s].rewritten => c.server[s].rewritten)
        /\ d.server[s].status = "REGISTERED" =>
                /\ c.server[s].status = "REGISTERED"
                /\ d.server[s].left = c.server[s].left /\ d.server[s].age = c.server[s].age
                /\ d.server[s].lifetime = c.server[s].lifetime
                /\ d.server[s].changed = c.server[s].changed

\* registration_start leaves alone who is registered or being registered.
LEMMA StartFollows ==
    ASSUME Held, NEW c \in Contexts
    PROVE  Follows(c, RegistrationStart(c, FALSE))
<1> DEFINE d == RegistrationStart(c, FALSE)
<1>1. \A s \in Servers :
            \/ d.server[s] = c.server[s]
            \/ /\ c.server[s].status \in StartsOf(FALSE)
               /\ d.server[s].status \in {c.server[s].status, "REG_HOLD_OFF"}
    BY StartFacts
<1>. HIDE DEF d
<1>2. QED
    BY <1>1 DEF Follows, Pursued, StartsOf, d

\* A sequence that has failed: another one, a bootstrap, or the end, and then every
\* request has been made (prv_handleRegistrationSequenceFailure).
LEMMA SequenceFailure ==
    ASSUME NEW c \in Sound, NEW s \in Servers, c.server[s].status = "REG_PENDING",
           c.server[s].attempt >= Config[s].attempts
    PROVE  LET e == HandleSequenceFailure(c, s)
           IN  /\ e \in Sound /\ Follows(c, e)
               /\ e.timeout = c.timeout /\ e.corrupt = c.corrupt
               /\ e.transactionList = c.transactionList
               /\ e.state \in {c.state, "BOOTSTRAP_REQUIRED"}
<1> DEFINE f == Config[s]
           goOn == f.ordered /\ ~f.blocking /\ c.server[s].sequence = 1
           d == IF goOn THEN RegistrationStart(c, FALSE) ELSE c
           e == HandleSequenceFailure(c, s)
<1>1. /\ c \in Contexts /\ Held /\ FALSE \in BOOLEAN
      /\ CountOK(c.server[s], f)
    BY DEF Sound, Counted
<1>2. /\ d \in Sound /\ d \in Contexts /\ Follows(c, d) /\ d.server[s] = c.server[s]
      /\ d.state = c.state /\ d.timeout = c.timeout /\ d.corrupt = c.corrupt
      /\ d.transactionList = c.transactionList
    <2>1. CASE goOn
        <3>1. d = RegistrationStart(c, FALSE)
            BY <2>1
        <3>2. d.server[s] = c.server[s]
            BY <1>1, <3>1, StartFacts DEF StartsOf
        <3>. HIDE DEF d, goOn
        <3>3. QED
            BY <1>1, <3>1, <3>2, StartFacts, StartSound, StartFollows DEF Sound
    <2>2. CASE ~goOn
        <3>1. Follows(c, c)
            BY DEF Follows
        <3>2. QED
            BY <1>1, <2>2, <3>1
    <2>3. QED
        BY <2>1, <2>2
<1> DEFINE failed == SetStatus(d, s, "REG_FAILED")
           others == {t \in Servers : Config[t].ordered /\ failed.server[t].status = "DEREGISTERED"}
           all == [failed EXCEPT !.server =
                    [t \in Servers |-> IF t \in others
                                       THEN [failed.server[t] EXCEPT !.status = "REG_FAILED"]
                                       ELSE failed.server[t]]]
           held == [d.server[s] EXCEPT !.status = "REG_HOLD_OFF", !.attempt = 0, !.left = f.sequenceDelay]
<1>3. \/ d.server[s].sequence < f.sequences /\ e = [d EXCEPT !.server[s] = held]
      \/ /\ ~(d.server[s].sequence < f.sequences) /\ f.bootstrap
         /\ e = [failed EXCEPT !.state = "BOOTSTRAP_REQUIRED"]
      \/ /\ ~(d.server[s].sequence < f.sequences) /\ e \in {failed, all}
    <2>1. e = IF d.server[s].sequence < f.sequences THEN [d EXCEPT !.server[s] = held]
              ELSE IF f.bootstrap THEN [failed EXCEPT !.state = "BOOTSTRAP_REQUIRED"]
              ELSE IF f.ordered /\ f.blocking THEN all
              ELSE failed
        BY <1>2 DEF HandleSequenceFailure, Contexts
    <2>. HIDE DEF d, failed, all, held, e
    <2>2. QED
        BY <2>1
<1>. HIDE DEF d, goOn, e
<1>4. /\ c.server[s].attempt \in Nat /\ c.server[s].rewritten \in BOOLEAN
      /\ c.server[s].tries \in Nat /\ c.server[s].sequence \in Nat /\ f.attempts \in Nat
      /\ f.sequences \in Nat /\ f.sequenceDelay \in Nat
      /\ c.server[s].attempt >= f.attempts
      /\ d.server[s] \in ServerRecords
    BY <1>1, <1>2, FieldTypes, ConfigType
<1>5. /\ c.server[s].tries >= c.server[s].sequence /\ c.server[s].sequence >= 1
      /\ c.server[s].tries + 1 >= f.attempts + c.server[s].sequence
      /\ ~c.server[s].rewritten =>
            /\ c.server[s].tries = c.server[s].sequence * f.attempts
            /\ c.server[s].sequence \in 1..f.sequences
    <2>1. /\ c.server[s].attempt >= 1 /\ c.server[s].sequence >= 1
          /\ c.server[s].tries + 1 >= c.server[s].attempt + c.server[s].sequence
        BY <1>1 DEF CountOK
    <2>2. ASSUME ~c.server[s].rewritten
          PROVE  /\ c.server[s].tries = c.server[s].sequence * f.attempts
                 /\ c.server[s].sequence \in 1..f.sequences
        <3>1. /\ c.server[s].attempt \in 1..f.attempts /\ c.server[s].sequence \in 1..f.sequences
              /\ c.server[s].tries + f.attempts = c.server[s].sequence * f.attempts + c.server[s].attempt
            BY <1>1, <2>2 DEF CountOK
        <3>2. c.server[s].attempt = f.attempts
            BY <1>4, <3>1
        <3>3. c.server[s].sequence * f.attempts \in Nat
            BY <1>4
        <3>4. QED
            BY <1>4, <3>1, <3>2, <3>3
    <2>3. QED
        BY <1>4, <2>1, <2>2
<1>6. CASE d.server[s].sequence < f.sequences /\ e = [d EXCEPT !.server[s] = held]
    <2>1. /\ held \in ServerRecords /\ held.status = "REG_HOLD_OFF" /\ held.attempt = 0
          /\ held.rewritten = d.server[s].rewritten /\ held.sequence = d.server[s].sequence
          /\ held.tries = d.server[s].tries /\ SameServer(d.server[s], held)
        BY <1>2, <1>4 DEF ServerRecords, ServerStatuses, Registering, SameServer
    <2>. HIDE DEF held
    <2>2. CountOK(held, f)
        BY <1>2, <1>4, <1>5, <1>6, <2>1 DEF CountOK
    <2>4. e \in Sound
        BY <1>2, <1>6, <2>1, <2>2, ServerChange
    <2>5. /\ e.server[s] = held /\ \A t \in Servers : t # s => e.server[t] = d.server[t]
          /\ e.timeout = d.timeout /\ e.corrupt = d.corrupt /\ e.state = d.state
          /\ e.transactionList = d.transactionList
        BY <1>2, <1>6 DEF Contexts
    <2>6. Follows(c, e)
        BY <1>2, <2>1, <2>5 DEF Follows, Pursued
    <2>7. QED
        BY <1>2, <2>4, <2>5, <2>6 DEF e
<1> DEFINE lost == [d.server[s] EXCEPT !.status = "REG_FAILED"]
<1>7. /\ lost \in ServerRecords /\ lost.status = "REG_FAILED"
      /\ lost.rewritten = d.server[s].rewritten /\ lost.tries = d.server[s].tries
      /\ SameServer(d.server[s], lost)
    BY <1>2, <1>4 DEF ServerRecords, ServerStatuses, SameServer
<1>8. failed = [d EXCEPT !.server[s] = lost]
    BY <1>2 DEF SetStatus, Contexts
<1>. HIDE DEF lost
<1>9. failed \in Sound
    <2>1. CountOK(lost, f)
        BY <1>7 DEF CountOK
    <2>2. QED
        BY <1>2, <1>7, <1>8, <2>1, ServerChange
<1>10. /\ failed.server[s] = lost /\ \A t \in Servers : t # s => failed.server[t] = d.server[t]
       /\ failed.timeout = d.timeout /\ failed.corrupt = d.corrupt /\ failed.state = d.state
       /\ failed.transactionList = d.transactionList /\ failed.bootstrap = d.bootstrap
    BY <1>2, <1>8 DEF Contexts
<1>11. ASSUME ~(d.server[s].sequence < f.sequences)
       PROVE  Follows(c, failed)
    <2>1. c.server[s].sequence >= f.sequences
        BY <1>2, <1>4, <1>11
    <2>2. /\ lost.tries + 1 >= f.attempts + f.sequences
          /\ ~lost.rewritten => lost.tries = f.attempts * f.sequences
        <3>1. c.server[s].tries + 1 >= f.attempts + f.sequences
            BY <1>4, <1>5, <2>1
        <3>2. ASSUME ~c.server[s].rewritten PROVE c.server[s].tries = f.attempts * f.sequences
            <4>1. c.server[s].sequence = f.sequences
                BY <1>4, <1>5, <2>1, <3>2
            <4>2. QED
                BY <1>4, <1>5, <3>2, <4>1
        <3>3. QED
            BY <1>2, <1>7, <3>1, <3>2
    <2>3. QED
        BY <1>2, <1>7, <1>10, <2>2 DEF Follows, Pursued
<1>. HIDE DEF failed
<1>12. CASE /\ ~(d.server[s].sequence < f.sequences) /\ f.bootstrap
            /\ e = [failed EXCEPT !.state = "BOOTSTRAP_REQUIRED"]
    <2>1. /\ e \in Contexts /\ e.state = "BOOTSTRAP_REQUIRED" /\ e.server = failed.server
          /\ e.bootstrap = failed.bootstrap /\ e.timeout = failed.timeout
          /\ e.corrupt = failed.corrupt /\ e.transactionList = failed.transactionList
        BY <1>9, <1>12 DEF Sound, Contexts, States
    <2>2. e \in Sound
        BY <1>9, <1>12, <2>1 DEF Sound, SessionOK, Cleaned, Counted, Made
    <2>3. Follows(c, e)
        BY <1>11, <1>12, <2>1 DEF Follows
    <2>4. QED
        BY <1>2, <1>10, <2>1, <2>2, <2>3 DEF e
<1>13. CASE ~(d.server[s].sequence < f.sequences) /\ e = failed
    BY <1>2, <1>9, <1>10, <1>11, <1>13 DEF e
<1>14. CASE ~(d.server[s].sequence < f.sequences) /\ e = all
    <2>1. failed \in Contexts
        BY <1>9 DEF Sound
    <2>2. ASSUME NEW t \in Servers
          PROVE  /\ e.server[t] \in ServerRecords
                 /\ \/ e.server[t] = failed.server[t]
                    \/ /\ failed.server[t].status = "DEREGISTERED"
                       /\ e.server[t].status = "REG_FAILED"
                       /\ SameServer(failed.server[t], e.server[t])
        <3>1. failed.server[t] \in ServerRecords
            BY <2>1, FieldTypes
        <3>2. e.server[t] = IF t \in others THEN [failed.server[t] EXCEPT !.status = "REG_FAILED"]
                                            ELSE failed.server[t]
            BY <1>14, <2>1 DEF Contexts
        <3>3. QED
            BY <3>1, <3>2 DEF ServerRecords, ServerStatuses, SameServer
    <2>3. /\ e.timeout = failed.timeout /\ e.corrupt = failed.corrupt
          /\ e.transactionList = failed.transactionList
          /\ e.state = failed.state /\ e.bootstrap = failed.bootstrap
          /\ e.server \in [Servers -> ServerRecords]
          /\ e \in Contexts
        <3>1. e.server \in [Servers -> ServerRecords]
            BY <1>14, <2>1, <2>2 DEF Contexts
        <3>2. QED
            BY <1>14, <2>1, <3>1 DEF Contexts
    <2>4. SessionOK(e) /\ Cleaned(e) /\ Made(e)
        BY <1>9, <2>2, <2>3 DEF Sound, SessionOK, Cleaned, Made, Origin, SameServer
    <2>5. Counted(e)
        BY <1>9, <2>2 DEF Sound, Counted, CountOK
    <2>6. Follows(c, e)
        BY <1>11, <1>14, <2>2 DEF Follows, Pursued
    <2>7. QED
        BY <1>2, <1>10, <2>3, <2>4, <2>5, <2>6 DEF Sound, e
<1>15. QED
    BY <1>3, <1>6, <1>12, <1>13, <1>14

-----------------------------------------------------------------------------
(* Client: replies *)

\* The time to the next update is a number.
LEMMA NextUpdateType ==
    ASSUME NEW l \in Nat PROVE NextUpdate(l) \in Nat
BY ConstantsAssumption DEF NextUpdate

\* The fields of a request.
LEMMA RequestTypes ==
    ASSUME NEW r \in Requests
    PROVE  /\ r.server \in Instances /\ r.kind \in RequestKinds /\ r.left \in 0..COAP_MAX_TRANSMIT_WAIT
           /\ r.left \in Nat /\ COAP_MAX_TRANSMIT_WAIT - r.left \in Nat
           /\ r.kind # "bootstrap" => r.server \in Servers
BY ConstantsAssumption DEF Requests, Instances

\* What is the same in what a handler returns.
Same(c, d) ==
    d.timeout = c.timeout /\ d.corrupt = c.corrupt /\ d.transactionList = c.transactionList

\* A handler may do nothing.
LEMMA FollowsSelf == \A c : Follows(c, c)
BY DEF Follows

\* One server's record changes.
LEMMA OneFollows ==
    ASSUME NEW c \in Contexts, NEW s \in Servers, NEW x \in ServerRecords,
           Pursued(c.server[s], Config[s]) => Pursued(x, Config[s]),
           x.rewritten => c.server[s].rewritten,
           x.status = "REGISTERED" => /\ c.server[s].status = "REGISTERED"
                                      /\ x.left = c.server[s].left /\ x.age = c.server[s].age
                                      /\ x.lifetime = c.server[s].lifetime
                                      /\ x.changed = c.server[s].changed
    PROVE  LET d == [c EXCEPT !.server[s] = x]
           IN  Follows(c, d) /\ Same(c, d) /\ d.state = c.state /\ d.bootstrap = c.bootstrap
<1> DEFINE d == [c EXCEPT !.server[s] = x]
<1>1. d.server[s] = x /\ \A t \in Servers : t # s => d.server[t] = c.server[t]
    BY DEF Contexts
<1>2. Same(c, d) /\ d.state = c.state /\ d.bootstrap = c.bootstrap
    BY DEF Contexts, Same
<1>. HIDE DEF d
<1>3. Follows(c, d)
    BY <1>1 DEF Follows
<1>4. QED
    BY <1>2, <1>3 DEF d

\* An attempt that has failed: another one, or the end of the sequence
\* (prv_handleRegistrationAttemptFailure).
LEMMA AttemptFailure ==
    ASSUME NEW c \in Sound, NEW s \in Servers, c.server[s].status = "REG_PENDING"
    PROVE  LET e == HandleAttemptFailure(c, s)
           IN  e \in Sound /\ Follows(c, e) /\ Same(c, e) /\ e.state \in {c.state, "BOOTSTRAP_REQUIRED"}
<1> DEFINE x == c.server[s]
           f == Config[s]
           y == [x EXCEPT !.status = "REG_HOLD_OFF",
                          !.left = f.attemptDelay * 2 ^ (x.attempt - 1)]
<1>1. /\ c \in Contexts /\ Held /\ x \in ServerRecords /\ CountOK(x, f) /\ f.attempts \in Nat
      /\ x.attempt >= 1 /\ x.attempt \in Nat /\ x.attempt - 1 \in Nat
    <2>1. c \in Contexts /\ Held /\ CountOK(x, f)
        BY DEF Sound, Counted
    <2>2. x \in ServerRecords /\ x.attempt \in Nat /\ f.attempts \in Nat
        BY <2>1, FieldTypes, ConfigType
    <2>3. x.attempt >= 1
        BY <2>1 DEF CountOK
    <2>4. QED
        BY <2>1, <2>2, <2>3
<1>2. CASE x.attempt >= f.attempts
    <2>2. HandleAttemptFailure(c, s) = HandleSequenceFailure(c, s)
        BY <1>2 DEF HandleAttemptFailure
    <2>3. QED
        BY <1>2, <2>2, SequenceFailure DEF Same
<1>3. CASE ~(x.attempt >= f.attempts)
    <2>1. f.attemptDelay * 2 ^ (x.attempt - 1) \in Nat
        <3>1. 2 ^ (x.attempt - 1) \in Nat
            BY <1>1, PowerType
        <3>2. f.attemptDelay \in Nat
            BY <1>1, ConfigType
        <3>3. QED
            BY <3>1, <3>2
    <2>2. /\ y \in ServerRecords /\ y.status = "REG_HOLD_OFF" /\ SameServer(x, y)
          /\ y.attempt = x.attempt /\ y.sequence = x.sequence /\ y.tries = x.tries
          /\ y.rewritten = x.rewritten
        BY <1>1, <2>1 DEF ServerRecords, ServerStatuses, Registering, SameServer
    <2>3. HandleAttemptFailure(c, s) = [c EXCEPT !.server[s] = y]
        BY <1>3 DEF HandleAttemptFailure
    <2>. HIDE DEF y
    <2>4. CountOK(y, f)
        BY <1>1, <1>3, <2>2 DEF CountOK
    <2>5. [c EXCEPT !.server[s] = y] \in Sound
        BY <2>2, <2>4, ServerChange
    <2>6. Pursued(y, f) /\ y.status # "REGISTERED"
        BY <2>2 DEF Pursued
    <2>7. QED
        BY <1>1, <2>2, <2>3, <2>5, <2>6, OneFollows
<1>4. QED
    BY <1>2, <1>3

\* What an answer may do: a server may be registered, from the request on.
Accepts(c, d, r) ==
    \A s \in Servers :
        /\ Pursued(c.server[s], Config[s]) =>
                Pursued(d.server[s], Config[s]) /\ (d.server[s].rewritten => c.server[s].rewritten)
        /\ d.server[s].status = "REGISTERED" =>
            \/ /\ c.server[s].status = "REGISTERED"
               /\ d.server[s].left = c.server[s].left /\ d.server[s].age = c.server[s].age
               /\ d.server[s].lifetime = c.server[s].lifetime
               /\ d.server[s].changed = c.server[s].changed
            \/ /\ d.server[s].left = NextUpdate(d.server[s].lifetime)
               /\ d.server[s].age = COAP_MAX_TRANSMIT_WAIT - r.left

\* A server accepts a request, and counts its lifetime from there.
LEMMA AcceptedFacts ==
    ASSUME NEW c \in Sound, NEW r \in Requests, r.server \in Servers, NEW l \in BOOLEAN,
           c.server[r.server].status # "none"
    PROVE  LET d == [Accepted(c, r) EXCEPT !.server[r.server].location = l]
           IN  d \in Sound /\ Accepts(c, d, r) /\ Same(c, d) /\ d.state = c.state
<1> DEFINE s == r.server
           l0 == c.server[s].lifetime
           x == [c.server[s] EXCEPT !.status = "REGISTERED", !.left = NextUpdate(l0),
                                    !.age = COAP_MAX_TRANSMIT_WAIT - r.left,
                                    !.location = l]
           d == [Accepted(c, r) EXCEPT !.server[r.server].location = l]
<1>1. /\ c \in Contexts /\ c.server[s] \in ServerRecords /\ NextUpdate(l0) \in Nat
      /\ COAP_MAX_TRANSMIT_WAIT - r.left \in Nat
    BY FieldTypes, NextUpdateType, RequestTypes DEF Sound
<1>2. /\ x \in ServerRecords /\ x.status = "REGISTERED" /\ x.left = NextUpdate(x.lifetime)
      /\ x.age = COAP_MAX_TRANSMIT_WAIT - r.left /\ SameServer(c.server[s], x)
    BY <1>1 DEF ServerRecords, ServerStatuses, Registered, SameServer
<1>3. d = [c EXCEPT !.server[s] = x]
    BY <1>1 DEF Accepted, Contexts, ServerRecords
<1>. HIDE DEF x
<1>4. CountOK(x, Config[s]) /\ Pursued(x, Config[s])
    BY <1>2 DEF CountOK, Pursued
<1>5. d \in Sound
    BY <1>2, <1>3, <1>4, ServerChange
<1>6. d.server[s] = x /\ \A t \in Servers : t # s => d.server[t] = c.server[t]
    BY <1>1, <1>3 DEF Contexts
<1>7. Same(c, d) /\ d.state = c.state
    BY <1>1, <1>3 DEF Contexts, Same
<1>. HIDE DEF d
<1>8. Accepts(c, d, r)
    BY <1>2, <1>4, <1>6 DEF Accepts, SameServer
<1>9. QED
    BY <1>5, <1>7, <1>8 DEF d

\* An answer, and what a handler does after it.
LEMMA AcceptsThen ==
    ASSUME NEW c, NEW d, NEW e, NEW r, Accepts(c, d, r), Follows(d, e)
    PROVE  Accepts(c, e, r)
BY DEF Accepts, Follows

\* An answer may be no more than what a handler does.
LEMMA FollowsAccepts ==
    ASSUME NEW c, NEW d, NEW r, Follows(c, d)
    PROVE  Accepts(c, d, r)
BY DEF Accepts, Follows

\* One handler after another.
LEMMA FollowsTrans ==
    ASSUME NEW c, NEW d, NEW e, Follows(c, d), Follows(d, e)
    PROVE  Follows(c, e)
BY DEF Follows

\* How a request ends.
Answers == {"ok", "error", "none"}

\* The reply to a registration (prv_handleRegistrationReply).
LEMMA RegistrationReply ==
    ASSUME NEW c \in Sound, NEW r \in Requests, r.server \in Servers, NEW answer \in Answers
    PROVE  LET e == HandleRegistrationReply(c, r, answer)
           IN  /\ e \in Sound /\ Accepts(c, e, r) /\ Same(c, e)
               /\ e.state \in {c.state, "BOOTSTRAP_REQUIRED"}
               /\ answer # "ok" => Follows(c, e)
<1> DEFINE s == r.server
           d == [Accepted(c, r) EXCEPT !.server[r.server].location = TRUE]
           e == HandleRegistrationReply(c, r, answer)
<1>1. CASE c.server[s].status # "REG_PENDING"
    <2>1. e = c
        BY <1>1 DEF HandleRegistrationReply
    <2>2. QED
        BY <2>1, FollowsSelf, FollowsAccepts DEF Same
<1>2. CASE c.server[s].status = "REG_PENDING" /\ answer # "ok"
    <2>1. e = HandleAttemptFailure(c, s)
        BY <1>2 DEF HandleRegistrationReply
    <2>. HIDE DEF e
    <2>2. QED
        BY <1>2, <2>1, AttemptFailure, FollowsAccepts DEF e
<1>3. CASE c.server[s].status = "REG_PENDING" /\ answer = "ok"
    <2>1. d \in Sound /\ Accepts(c, d, r) /\ Same(c, d) /\ d.state = c.state
        <3>1. c.server[s].status # "none" /\ TRUE \in BOOLEAN
            BY <1>3
        <3>2. QED
            BY <3>1, AcceptedFacts
    <2>3. d \in Contexts /\ Held
        BY <2>1 DEF Sound
    <2>4. e \in {d, RegistrationStart(d, FALSE)}
        BY <1>3 DEF HandleRegistrationReply
    <2>. HIDE DEF d, e
    <2>5. e = d \/ e = RegistrationStart(d, FALSE)
        BY <2>4
    <2>7. e \in Sound /\ Follows(d, e) /\ Same(d, e) /\ e.state = d.state
        <3>1. CASE e = d
            BY <2>1, <3>1, FollowsSelf DEF Same
        <3>2. CASE e = RegistrationStart(d, FALSE)
            <4>1. e \in Sound /\ Follows(d, e)
                BY <2>1, <2>3, <3>2, StartSound, StartFollows
            <4>2. Same(d, e) /\ e.state = d.state
                BY <2>3, <3>2, StartFacts DEF Same
            <4>3. QED
                BY <4>1, <4>2
        <3>3. QED
            BY <2>5, <3>1, <3>2
    <2>8. QED
        BY <1>3, <2>1, <2>7, AcceptsThen DEF Same, e
<1>4. QED
    BY <1>1, <1>2, <1>3

\* The status of a server changes, to one that is not on the way to a registration.
LEMMA StatusChange ==
    ASSUME NEW c \in Sound, NEW s \in Servers, NEW status \in ServerStatuses,
           c.server[s].status \in Registered \ {"REGISTERED"},
           status \in {"DEREGISTERED", "REG_FAILED"} \cup (Registered \ {"REGISTERED"})
    PROVE  LET e == SetStatus(c, s, status)
           IN  e \in Sound /\ Follows(c, e) /\ Same(c, e) /\ e.state = c.state
<1> DEFINE x == [c.server[s] EXCEPT !.status = status]
<1>1. c \in Contexts /\ c.server[s] \in ServerRecords
    BY FieldTypes DEF Sound
<1>2. /\ x \in ServerRecords /\ x.status = status /\ SameServer(c.server[s], x)
    BY <1>1 DEF ServerRecords, SameServer, Registered
<1>3. SetStatus(c, s, status) = [c EXCEPT !.server[s] = x]
    BY <1>1 DEF SetStatus, Contexts
<1>. HIDE DEF x
<1>4. CountOK(x, Config[s]) /\ x.status # "REGISTERED"
    BY <1>2 DEF CountOK, Registered
<1>5. ~Pursued(c.server[s], Config[s])
    BY DEF Registered, Pursued
<1>6. QED
    BY <1>1, <1>2, <1>3, <1>4, <1>5, ServerChange, OneFollows DEF SameServer

\* The reply to an update (prv_handleRegistrationUpdateReply).
LEMMA UpdateReply ==
    ASSUME NEW c \in Sound, NEW r \in Requests, r.server \in Servers, NEW answer \in Answers
    PROVE  LET e == HandleUpdateReply(c, r, answer)
           IN  /\ e \in Sound /\ Accepts(c, e, r) /\ Same(c, e) /\ e.state = c.state
               /\ answer # "ok" => Follows(c, e)
<1> DEFINE s == r.server
           d == [Accepted(c, r) EXCEPT !.server[r.server].location = c.server[s].location]
           e == HandleUpdateReply(c, r, answer)
<1>1. CASE c.server[s].status # "REG_UPDATE_PENDING"
    <2>1. e = c
        BY <1>1 DEF HandleUpdateReply
    <2>2. QED
        BY <2>1, FollowsSelf, FollowsAccepts DEF Same
<1>2. CASE c.server[s].status = "REG_UPDATE_PENDING" /\ answer # "ok"
    <2>1. e = SetStatus(c, s, "REG_FAILED")
        BY <1>2 DEF HandleUpdateReply
    <2>2. c.server[s].status \in Registered \ {"REGISTERED"} /\ "REG_FAILED" \in ServerStatuses
        BY <1>2 DEF Registered, ServerStatuses
    <2>. HIDE DEF e
    <2>3. QED
        BY <2>1, <2>2, StatusChange, FollowsAccepts DEF e
<1>3. CASE c.server[s].status = "REG_UPDATE_PENDING" /\ answer = "ok"
    <2>1. d \in Sound /\ Accepts(c, d, r) /\ Same(c, d) /\ d.state = c.state
        <3>1. c.server[s].status # "none" /\ c.server[s].location \in BOOLEAN
            BY <1>3, FieldTypes DEF Sound
        <3>2. QED
            BY <3>1, AcceptedFacts
    <2>2. e = Accepted(c, r)
        BY <1>3 DEF HandleUpdateReply
    <2>3. d = Accepted(c, r)
        <3>1. c \in Contexts /\ c.server[s] \in ServerRecords /\ c.server[s].location \in BOOLEAN
            BY FieldTypes DEF Sound
        <3>2. QED
            BY <3>1 DEF Accepted, Contexts, ServerRecords
    <2>4. QED
        BY <1>3, <2>1, <2>2, <2>3
<1>4. QED
    BY <1>1, <1>2, <1>3

\* Any reply: only an answer "ok" can register a server, and only its own.
LEMMA ReplyFacts ==
    ASSUME NEW c \in Sound, NEW r \in Requests, NEW answer \in Answers
    PROVE  LET e == HandleReply(c, r, answer)
           IN  /\ e \in Sound /\ Accepts(c, e, r)
               /\ e.timeout = c.timeout /\ e.transactionList = c.transactionList
               /\ e.state \in {c.state, "BOOTSTRAP_REQUIRED"}
               /\ answer # "ok" => Follows(c, e)
<1> DEFINE e == HandleReply(c, r, answer)
           s == r.server
<1>1. c \in Contexts /\ r.kind \in RequestKinds /\ (r.kind # "bootstrap" => s \in Servers)
    BY RequestTypes DEF Sound
<1>2. CASE r.link = "freed"
    <2>1. e = [c EXCEPT !.corrupt = TRUE]
        BY <1>2 DEF HandleReply
    <2>2. /\ e \in Contexts /\ e.state = c.state /\ e.server = c.server /\ e.bootstrap = c.bootstrap
          /\ e.timeout = c.timeout /\ e.transactionList = c.transactionList
        BY <1>1, <2>1 DEF Contexts
    <2>. HIDE DEF e
    <2>3. e \in Sound
        BY <2>2, SameSound
    <2>4. Follows(c, e)
        BY <2>2 DEF Follows
    <2>5. QED
        BY <2>2, <2>3, <2>4, FollowsAccepts DEF e
<1>3. CASE r.link # "freed" /\ r.kind = "register"
    <2>1. e = HandleRegistrationReply(c, r, answer)
        BY <1>3 DEF HandleReply
    <2>. HIDE DEF e
    <2>2. QED
        BY <1>1, <1>3, <2>1, RegistrationReply DEF Same, e
<1>4. CASE r.link # "freed" /\ r.kind = "update"
    <2>1. e = HandleUpdateReply(c, r, answer)
        BY <1>4 DEF HandleReply
    <2>. HIDE DEF e
    <2>2. QED
        BY <1>1, <1>4, <2>1, UpdateReply DEF Same, e
<1>5. CASE r.link # "freed" /\ r.kind = "deregister"
    <2>1. e = HandleDeregistrationReply(c, r)
        BY <1>5 DEF HandleReply
    <2>2. CASE c.server[s].status = "DEREG_PENDING"
        <3>1. e = SetStatus(c, s, "DEREGISTERED")
            BY <2>1, <2>2 DEF HandleDeregistrationReply
        <3>2. c.server[s].status \in Registered \ {"REGISTERED"} /\ "DEREGISTERED" \in ServerStatuses
            BY <2>2 DEF Registered, ServerStatuses
        <3>. HIDE DEF e
        <3>3. QED
            BY <1>1, <1>5, <3>1, <3>2, StatusChange, FollowsAccepts DEF Same, e
    <2>3. CASE c.server[s].status # "DEREG_PENDING"
        <3>1. e = c
            BY <2>1, <2>3 DEF HandleDeregistrationReply
        <3>2. QED
            BY <3>1, FollowsSelf, FollowsAccepts
    <2>4. QED
        BY <2>2, <2>3
<1>6. CASE r.link # "freed" /\ r.kind = "bootstrap"
    <2>1. e = HandleBootstrapReply(c, answer)
        BY <1>6 DEF HandleReply
    <2>2. CASE c.bootstrap.status # "BS_INITIATED"
        <3>1. e = c
            BY <2>1, <2>2 DEF HandleBootstrapReply
        <3>2. QED
            BY <3>1, FollowsSelf, FollowsAccepts
    <2>3. CASE c.bootstrap.status = "BS_INITIATED"
        <3>1. /\ e.state = c.state /\ e.server = c.server /\ e.timeout = c.timeout
              /\ e.transactionList = c.transactionList /\ e.corrupt = c.corrupt
              /\ e \in Contexts
              /\ e.bootstrap.sessionH = c.bootstrap.sessionH /\ e.bootstrap.status \in BsPending
            <4>1. /\ c.bootstrap \in BootstrapRecords /\ COAP_EXCHANGE_LIFETIME \in Nat
                  /\ {"BS_PENDING", "BS_FAILING"} \subseteq BsPending \cap BsStatuses
                BY <1>1, FieldTypes, ConstantsAssumption DEF BsPending, BsStatuses
            <4>2. CASE answer = "ok"
                <5>1. e = [c EXCEPT !.bootstrap = [@ EXCEPT !.status = "BS_PENDING",
                                                            !.left = COAP_EXCHANGE_LIFETIME]]
                    BY <2>1, <2>3, <4>2 DEF HandleBootstrapReply
                <5>. HIDE DEF e
                <5>2. QED
                    BY <1>1, <4>1, <5>1 DEF Contexts, BootstrapRecords
            <4>3. CASE answer # "ok"
                <5>1. e = [c EXCEPT !.bootstrap.status = "BS_FAILING"]
                    BY <2>1, <2>3, <4>3 DEF HandleBootstrapReply
                <5>. HIDE DEF e
                <5>2. QED
                    BY <1>1, <4>1, <5>1 DEF Contexts, BootstrapRecords
            <4>4. QED
                BY <4>2, <4>3
        <3>. HIDE DEF e
        <3>2. e \in Sound
            BY <3>1 DEF Sound, SessionOK, Cleaned, Counted, Made
        <3>3. Follows(c, e)
            BY <3>1 DEF Follows
        <3>4. QED
            BY <3>1, <3>2, <3>3, FollowsAccepts DEF e
    <2>4. QED
        BY <2>2, <2>3
<1>7. QED
    BY <1>1, <1>2, <1>3, <1>4, <1>5, <1>6 DEF RequestKinds

-----------------------------------------------------------------------------
(* Client: registration_step *)

\* registration_step has seen to a registered server: its update is not due, and
\* the timeout is no later than it.
Tended(d, s) ==
    d.server[s].status = "REGISTERED" => d.server[s].left > 0 /\ d.timeout <= d.server[s].left

\* What the beginning of a step leaves alone.
Steady(c, d) ==
    \A s \in Servers :
        /\ c.server[s].status = "REG_PENDING" =>
                /\ d.server[s].status = "REG_PENDING"
                /\ d.server[s].rewritten => c.server[s].rewritten
        /\ d.server[s].status = "REGISTERED" =>
                /\ c.server[s].status = "REGISTERED"
                /\ d.server[s].left = c.server[s].left /\ d.server[s].age = c.server[s].age
                /\ d.server[s].lifetime = c.server[s].lifetime
                /\ d.server[s].changed = c.server[s].changed

\* One after the other.
LEMMA SteadyTrans ==
    ASSUME NEW c, NEW d, NEW e, Steady(c, d), Steady(d, e)
    PROVE  Steady(c, e)
BY DEF Steady

\* The servers are not touched.
LEMMA SteadySelf == \A c, d : d.server = c.server => Steady(c, d)
BY DEF Steady

\* Only one server is touched, and not registered by it.
LEMMA SteadyOne ==
    ASSUME NEW c, NEW d, NEW s \in Servers, \A t \in Servers : t # s => d.server[t] = c.server[t],
           c.server[s].status = "REG_PENDING" => d.server[s].status = "REG_PENDING",
           d.server[s].rewritten => c.server[s].rewritten, d.server[s].status # "REGISTERED"
    PROVE  Steady(c, d)
BY DEF Steady

\* prv_updateRegistration
LEMMA UpdateSent ==
    ASSUME NEW c \in Sound, NEW s \in Servers, c.server[s].status \in Registered
    PROVE  LET e == UpdateRegistration(c, s)
           IN  /\ e \in Sound /\ e.state = c.state /\ e.bootstrap = c.bootstrap
               /\ e.timeout = c.timeout /\ e.corrupt = c.corrupt
               /\ e.server[s].status = "REG_UPDATE_PENDING"
               /\ \A t \in Servers : t # s => e.server[t] = c.server[t]
<1> DEFINE d == Send(c, s, "update")
           x == [c.server[s] EXCEPT !.status = "REG_UPDATE_PENDING"]
<1>1. c \in Contexts /\ s \in Instances /\ s # Bootstrap /\ "update" \in RequestKinds
    BY ServerIds DEF Sound, RequestKinds
<1>2. /\ d \in Contexts /\ d.state = c.state /\ d.server = c.server /\ d.bootstrap = c.bootstrap
      /\ d.timeout = c.timeout /\ d.corrupt = c.corrupt
    BY <1>1, SendFacts
<1>3. d \in Sound
    BY <1>2, SameSound
<1>4. x \in ServerRecords /\ x.status = "REG_UPDATE_PENDING" /\ SameServer(c.server[s], x)
    BY <1>1, FieldTypes DEF ServerRecords, ServerStatuses, Registered, SameServer
<1>5. UpdateRegistration(c, s) = [d EXCEPT !.server[s] = x]
    BY <1>2 DEF UpdateRegistration, SetStatus, Contexts
<1>. HIDE DEF d, x
<1>6. CountOK(x, Config[s])
    BY <1>4 DEF CountOK
<1>7. [d EXCEPT !.server[s] = x] \in Sound
    BY <1>2, <1>3, <1>4, <1>6, ServerChange
<1>8. QED
    BY <1>2, <1>4, <1>5, <1>7 DEF Contexts

\* prv_register: it counts the attempt, and with the first the sequence.
LEMMA RegisterSent ==
    ASSUME NEW c \in Sound, NEW s \in Servers, NEW reach, c.server[s].status = "REG_HOLD_OFF"
    PROVE  LET e == Register(c, s, reach)
           IN  /\ e \in Sound /\ e.state = c.state /\ e.bootstrap = c.bootstrap
               /\ e.timeout = c.timeout /\ e.corrupt = c.corrupt
               /\ e.server[s].status \in {"REG_HOLD_OFF", "REG_PENDING"}
               /\ e.server[s].rewritten => c.server[s].rewritten
               /\ \A t \in Servers : t # s => e.server[t] = c.server[t]
<1> DEFINE d == Send(c, s, "register")
           x == c.server[s]
           f == Config[s]
           y == [x EXCEPT !.sessionH = TRUE, !.status = "REG_PENDING",
                          !.sequence = IF x.attempt = 0 THEN @ + 1 ELSE @,
                          !.attempt = @ + 1, !.tries = @ + 1, !.changed = FALSE]
           e == Register(c, s, reach)
<1>1. c \in Contexts /\ s \in Instances /\ s # Bootstrap /\ "register" \in RequestKinds /\ x \in ServerRecords
    BY ServerIds, FieldTypes DEF Sound, RequestKinds
<1>2. /\ d \in Contexts /\ d.state = c.state /\ d.server = c.server /\ d.bootstrap = c.bootstrap
      /\ d.timeout = c.timeout /\ d.corrupt = c.corrupt
    BY <1>1, SendFacts
<1>3. d \in Sound
    BY <1>2, SameSound
<1>4. /\ y \in ServerRecords /\ y.status = "REG_PENDING" /\ SameServer(x, y)
      /\ y.attempt = x.attempt + 1 /\ y.tries = x.tries + 1 /\ y.rewritten = x.rewritten
      /\ y.sequence = IF x.attempt = 0 THEN x.sequence + 1 ELSE x.sequence
    <2>1. x.attempt + 1 \in Nat /\ x.tries + 1 \in Nat /\ x.sequence + 1 \in Nat /\ x.sequence \in Nat
        BY <1>1, FieldTypes
    <2>2. "REG_PENDING" \in ServerStatuses
        BY DEF ServerStatuses, Registering
    <2>3. QED
        BY <1>1, <2>1, <2>2 DEF ServerRecords, SameServer
<1>5. e \in {c, [d EXCEPT !.server[s] = y]}
    BY <1>2 DEF Register
<1>. HIDE DEF d, y, e
<1>6. CountOK(y, f)
    <2>1. CountOK(x, f) /\ x.status = "REG_HOLD_OFF"
        BY DEF Sound, Counted
    <2>2. /\ x.attempt \in Nat /\ x.sequence \in Nat /\ x.tries \in Nat
          /\ f.attempts \in Nat \ {0} /\ f.sequences \in Nat \ {0}
        BY <1>1, FieldTypes, ConfigType DEF Sound
    <2>3. CASE x.attempt = 0
        <3>1. /\ x.tries >= x.sequence
              /\ ~x.rewritten => x.sequence < f.sequences /\ x.tries = x.sequence * f.attempts
            BY <2>1, <2>2, <2>3 DEF CountOK
        <3>2. (x.sequence + 1) * f.attempts = x.sequence * f.attempts + f.attempts
            BY <2>2
        <3>3. x.sequence * f.attempts \in Nat
            BY <2>2
        <3>4. QED
            BY <1>4, <2>2, <2>3, <3>1, <3>2, <3>3 DEF CountOK
    <2>4. CASE x.attempt # 0
        <3>1. /\ x.attempt >= 1 /\ x.sequence >= 1 /\ x.tries + 1 >= x.attempt + x.sequence
              /\ ~x.rewritten =>
                    /\ x.attempt \in 1..(f.attempts - 1) /\ x.sequence \in 1..f.sequences
                    /\ x.tries + f.attempts = x.sequence * f.attempts + x.attempt
            BY <2>1, <2>2, <2>4 DEF CountOK
        <3>2. x.sequence * f.attempts \in Nat
            BY <2>2
        <3>3. QED
            BY <1>4, <2>2, <2>4, <3>1, <3>2 DEF CountOK
    <2>5. QED
        BY <2>3, <2>4
<1>7. [d EXCEPT !.server[s] = y] \in Sound
    BY <1>2, <1>3, <1>4, <1>6, ServerChange
<1>8. CASE e = c
    BY <1>8 DEF e
<1>9. CASE e = [d EXCEPT !.server[s] = y]
    BY <1>2, <1>4, <1>7, <1>9 DEF Contexts, SameServer, e
<1>10. QED
    BY <1>5, <1>8, <1>9

\* registration_step sees to one server.
LEMMA StepServerFacts ==
    ASSUME NEW c \in Sound, NEW s \in Servers, NEW reach
    PROVE  LET e == StepServer(c, s, reach)
           IN  /\ e \in Sound /\ e.state = c.state /\ e.bootstrap = c.bootstrap
               /\ e.timeout <= c.timeout
               /\ Steady(c, e) /\ Tended(e, s)
<1> DEFINE x == c.server[s]
           e == StepServer(c, s, reach)
<1>1. c \in Contexts /\ x \in ServerRecords /\ x.left \in Nat /\ c.timeout \in Nat
    BY FieldTypes DEF Sound
<1>2. CASE x.status \in {"REG_HOLD_OFF", "REGISTERED"} /\ x.left # 0
    <2>1. e = Within(c, x.left)
        BY <1>2 DEF StepServer
    <2>. HIDE DEF e
    <2>2. /\ e \in Contexts /\ e.state = c.state /\ e.server = c.server /\ e.bootstrap = c.bootstrap
          /\ e.timeout <= c.timeout /\ e.timeout <= x.left
        BY <1>1, <2>1, WithinFacts
    <2>3. e \in Sound /\ Steady(c, e)
        BY <2>2, SameSound, SteadySelf
    <2>4. Tended(e, s)
        BY <1>1, <1>2, <2>2 DEF Tended
    <2>5. QED
        BY <2>2, <2>3, <2>4 DEF e
<1>3. CASE x.status = "REG_HOLD_OFF" /\ x.left = 0
    <2>1. e = Register(c, s, reach)
        BY <1>3 DEF StepServer
    <2>. HIDE DEF e
    <2>2. /\ e \in Sound /\ e.state = c.state /\ e.bootstrap = c.bootstrap
          /\ e.timeout = c.timeout
          /\ e.server[s].status \in {"REG_HOLD_OFF", "REG_PENDING"}
          /\ e.server[s].rewritten => c.server[s].rewritten
          /\ \A t \in Servers : t # s => e.server[t] = c.server[t]
        BY <1>3, <2>1, RegisterSent
    <2>3. Steady(c, e) /\ Tended(e, s)
        BY <1>3, <2>2, SteadyOne DEF Tended
    <2>4. QED
        BY <1>1, <2>2, <2>3 DEF e
<1>4. CASE \/ x.status = "REGISTERED" /\ x.left = 0
           \/ x.status \in {"REG_UPDATE_NEEDED", "REG_FULL_UPDATE_NEEDED"}
    <2>1. e = UpdateRegistration(c, s)
        BY <1>4 DEF StepServer
    <2>. HIDE DEF e
    <2>2. x.status \in Registered /\ x.status # "REG_PENDING"
        BY <1>4 DEF Registered
    <2>3. /\ e \in Sound /\ e.state = c.state /\ e.bootstrap = c.bootstrap
          /\ e.timeout = c.timeout
          /\ e.server[s].status = "REG_UPDATE_PENDING"
          /\ \A t \in Servers : t # s => e.server[t] = c.server[t]
        BY <2>1, <2>2, UpdateSent
    <2>4. Steady(c, e)
        <3>1. ASSUME NEW t \in Servers
              PROVE  /\ c.server[t].status = "REG_PENDING" => e.server[t] = c.server[t]
                     /\ e.server[t].status = "REGISTERED" => e.server[t] = c.server[t]
            BY <2>2, <2>3
        <3>2. QED
            BY <3>1 DEF Steady
    <2>5. Tended(e, s)
        BY <2>3 DEF Tended
    <2>6. QED
        BY <1>1, <2>3, <2>4, <2>5 DEF e
<1>5. CASE x.status = "REG_FAILED"
    <2> DEFINE y == [x EXCEPT !.sessionH = FALSE]
               d == [c EXCEPT !.server[s] = y]
    <2>1. /\ y \in ServerRecords /\ y.status = "REG_FAILED" /\ SameServer(x, y)
        BY <1>1, <1>5 DEF ServerRecords, SameServer
    <2>2. e = Cut(d, {s}, "closed")
        BY <1>1, <1>5 DEF StepServer, Contexts
    <2>. HIDE DEF y
    <2>3. d \in Sound
        BY <2>1, ServerChange DEF CountOK
    <2>4. /\ d \in Contexts /\ d.state = c.state /\ d.bootstrap = c.bootstrap /\ d.timeout = c.timeout
          /\ d.server[s] = y /\ \A t \in Servers : t # s => d.server[t] = c.server[t]
        BY <1>1, <2>3 DEF Sound, Contexts
    <2>. HIDE DEF d, e
    <2>5. /\ e \in Contexts /\ e.state = d.state /\ e.server = d.server /\ e.bootstrap = d.bootstrap
          /\ e.timeout = d.timeout
        BY <2>2, <2>4, CutFacts
    <2>6. e \in Sound
        BY <2>3, <2>5, SameSound
    <2>7. Steady(c, e) /\ Tended(e, s)
        BY <1>5, <2>1, <2>4, <2>5, SteadyOne DEF Tended, SameServer
    <2>8. QED
        BY <1>1, <2>4, <2>5, <2>6, <2>7 DEF e
<1>6. CASE x.status \notin {"REG_HOLD_OFF", "REGISTERED", "REG_UPDATE_NEEDED",
                            "REG_FULL_UPDATE_NEEDED", "REG_FAILED"}
    <2>1. e = c
        BY <1>6 DEF StepServer
    <2>2. QED
        BY <1>1, <1>6, <2>1, SteadySelf DEF Tended
<1>7. QED
    BY <1>2, <1>3, <1>4, <1>5, <1>6

\* registration_step, one server after the other.
LEMMA RegistrationPasses ==
    ASSUME NEW c \in Sound, NEW reach, NEW n, n = Cardinality(Servers)
    PROVE  \E h \in [0..n -> Sound] :
                /\ h[0] = c /\ h[n] = RegistrationStep(c, reach)
                /\ \A i \in 1..n : h[i] = StepServer(h[i - 1], ServerList[i], reach)
<1> DEFINE q == ServerList
           E(it) == it = [s \in SUBSET DOMAIN q |->
                            IF s = {} THEN c ELSE StepServer(it[s \ {Max(s)}], q[Max(s)], reach)]
           g == [i \in 1..n |-> [d \in Sound |-> StepServer(d, q[i], reach)]]
           F == CHOOSE it : E(it)
<1>1. n \in Nat /\ q \in [1..n -> Servers] /\ DOMAIN q = 1..n
    BY ServerListFacts
<1>2. RegistrationStep(c, reach) = F[DOMAIN q]
    BY DEF RegistrationStep, FoldLeft, MapThenFoldSet
<1>3. g \in [1..n -> [Sound -> Sound]]
    BY <1>1, StepServerFacts
<1>4. \A s \in SUBSET (1..n) : s # {} => Max(s) \in 1..n /\ s \ {Max(s)} \in SUBSET (1..n)
    BY <1>1, GreatestExists
<1>5. \A s \in SUBSET (1..n), d \in Sound : s # {} => g[Max(s)][d] = StepServer(d, q[Max(s)], reach)
    BY <1>4
<1>. HIDE DEF q, g
<1>6. \E it : E(it)
    <2>1. PICK it \in [SUBSET (1..n) -> Sound] : Iterates(it, n, c, g)
        BY <1>1, <1>3, IterationExists, Zenon
    <2>2. \A s \in SUBSET (1..n) :
                it[s] = IF s = {} THEN c ELSE StepServer(it[s \ {Max(s)}], q[Max(s)], reach)
        BY <1>4, <1>5, <2>1 DEF Iterates
    <2>3. E(it)
        BY <1>1, <2>1, <2>2
    <2>4. QED
        BY <2>3
<1>7. E(F)
    <2>. HIDE DEF E
    <2>. QED
        BY <1>6, Zenon
<1>. HIDE DEF F
<1>8. /\ F[{}] = c
      /\ \A s \in SUBSET (1..n) : s # {} =>
            F[s] = StepServer(F[s \ {Max(s)}], q[Max(s)], reach)
    <2>1. \A s \in SUBSET (1..n) : F[s] =
                IF s = {} THEN c ELSE StepServer(F[s \ {Max(s)}], q[Max(s)], reach)
        BY <1>1, <1>7
    <2>2. {} \in SUBSET (1..n)
        OBVIOUS
    <2>3. QED
        BY <2>1, <2>2
<1>. HIDE DEF E
<1>9. IteratesIn(Sound, F, n, c, g)
    BY <1>5, <1>8 DEF IteratesIn
<1>10. PICK h \in [0..n -> Sound] : h[n] = F[1..n] /\ Passes(h, n, c, g)
    BY <1>1, <1>3, <1>9, PassesOf, Zenon
<1>11. \A i \in 1..n : h[i] = StepServer(h[i - 1], q[i], reach)
    <2>1. \A i \in 1..n : i - 1 \in 0..n
        BY <1>1
    <2>2. \A i \in 1..n : h[i - 1] \in Sound
        BY <1>10, <2>1
    <2>3. QED
        BY <1>10, <2>2 DEF g, Passes
<1>12. QED
    BY <1>1, <1>2, <1>10, <1>11 DEF q, Passes

\* registration_step sees to every server, and the timeout is no later than any
\* update: what it did for one is not undone for the next.
LEMMA RegistrationStepFacts ==
    ASSUME NEW c \in Sound, NEW reach
    PROVE  LET e == RegistrationStep(c, reach)
           IN  /\ e \in Sound /\ e.state = c.state /\ e.bootstrap = c.bootstrap
               /\ Steady(c, e) /\ \A s \in Servers : Tended(e, s)
<1> DEFINE n == Cardinality(Servers)
<1>1. n \in Nat /\ ServerList \in [1..n -> Servers]
    BY ServerListFacts
<1>2. PICK h \in [0..n -> Sound] :
                /\ h[0] = c /\ h[n] = RegistrationStep(c, reach)
                /\ \A i \in 1..n : h[i] = StepServer(h[i - 1], ServerList[i], reach)
    BY RegistrationPasses
<1> DEFINE P(i) == /\ h[i].state = c.state /\ h[i].bootstrap = c.bootstrap /\ Steady(c, h[i])
                   /\ \A j \in 1..i : Tended(h[i], ServerList[j])
           S == {i \in 0..n : P(i)}
<1>. HIDE DEF n
<1>3. 0 \in S
    <2>1. 0 \in 0..n
        BY <1>1
    <2>2. QED
        BY <1>2, <2>1, SteadySelf
<1>4. ASSUME NEW i \in 0..n, i \in S, i # n PROVE i + 1 \in S
    <2> DEFINE d == h[i]
               e == h[i + 1]
               s == ServerList[i + 1]
    <2>1. i + 1 \in 1..n /\ i + 1 \in 0..n /\ (i + 1) - 1 = i
        BY <1>1, <1>4
    <2>2. d \in Sound /\ s \in Servers /\ e = StepServer(d, s, reach)
        BY <1>1, <1>2, <2>1
    <2>3. /\ e \in Sound /\ e.state = d.state /\ e.bootstrap = d.bootstrap
          /\ e.timeout <= d.timeout /\ Steady(d, e) /\ Tended(e, s)
        BY <2>2, StepServerFacts
    <2>4. P(i)
        BY <1>4
    <2>. HIDE DEF d, e
    <2>5. Steady(c, e)
        BY <2>3, <2>4, SteadyTrans DEF d
    <2>6. ASSUME NEW j \in 1..(i + 1) PROVE Tended(e, ServerList[j])
        <3>1. CASE j = i + 1
            BY <2>3, <3>1
        <3>2. CASE j # i + 1
            <4>1. j \in 1..i /\ j \in 1..n
                BY <1>1, <2>1, <3>2
            <4>2. Tended(d, ServerList[j]) /\ ServerList[j] \in Servers
                BY <1>1, <2>4, <4>1 DEF d
            <4>3. PICK t \in Servers : t = ServerList[j]
                BY <4>2
            <4>4. /\ d.timeout \in Nat /\ e.timeout \in Nat
                  /\ d.server[t].left \in Nat
                BY <2>2, <2>3, FieldTypes DEF Sound
            <4>5. Tended(e, t)
                BY <2>3, <4>2, <4>3, <4>4 DEF Tended, Steady
            <4>6. QED
                BY <4>3, <4>5
        <3>3. QED
            BY <3>1, <3>2
    <2>7. P(i + 1)
        BY <2>3, <2>4, <2>5, <2>6 DEF d, e
    <2>. HIDE DEF P
    <2>8. QED
        BY <2>1, <2>7
<1>5. n \in S
    <2>. HIDE DEF S
    <2>1. \A i \in 0..n : i \in S
        BY <1>1, <1>3, <1>4, Induction
    <2>2. QED
        BY <1>1, <2>1
<1>6. P(n) /\ n \in 0..n
    BY <1>1, <1>5
<1>7. \A s \in Servers : \E j \in 1..n : ServerList[j] = s
    BY ServerListFacts DEF n
<1>8. \A s \in Servers : Tended(h[n], s)
    BY <1>6, <1>7
<1>9. QED
    BY <1>2, <1>6, <1>8

-----------------------------------------------------------------------------
(* transaction_step *)

\* What transaction_step does for one request.
TransactionTurn(d, r) ==
    IF r.left = 0 THEN [HandleReply(d, r, "none") EXCEPT !.timeout = 1]
    ELSE Within([d EXCEPT !.transactionList = Append(@, r)], r.left)

\* transaction_step, for one request: the servers stay seen to.
LEMMA TransactionTurnFacts ==
    ASSUME NEW d \in Sound, NEW r \in Requests
    PROVE  LET e == TransactionTurn(d, r)
           IN  /\ e \in Sound /\ e.state \in {d.state, "BOOTSTRAP_REQUIRED"} /\ Follows(d, e)
               /\ (\A s \in Servers : Tended(d, s)) => \A s \in Servers : Tended(e, s)
<1> DEFINE e == TransactionTurn(d, r)
<1>1. d \in Contexts /\ d.timeout \in Nat /\ r.left \in Nat
    BY RequestTypes, FieldTypes DEF Sound
<1>2. CASE r.left = 0
    <2> DEFINE k == HandleReply(d, r, "none")
    <2>1. /\ k \in Sound /\ k \in Contexts /\ k.state \in {d.state, "BOOTSTRAP_REQUIRED"} /\ Follows(d, k)
        BY ReplyFacts DEF Answers, Sound
    <2>2. e = [k EXCEPT !.timeout = 1]
        BY <1>2 DEF TransactionTurn
    <2>. HIDE DEF k, e
    <2>3. /\ e \in Contexts /\ e.state = k.state /\ e.server = k.server /\ e.bootstrap = k.bootstrap
          /\ e.timeout = 1
        <3>1. 1 \in 0..MaxSleep
            BY ConstantsAssumption
        <3>2. QED
            BY <2>1, <2>2, <3>1 DEF Contexts
    <2>4. e \in Sound /\ Follows(d, e)
        BY <2>1, <2>3, SameSound DEF Follows
    <2>5. ASSUME NEW s \in Servers, Tended(d, s) PROVE Tended(e, s)
        <3>1. d.server[s].left \in Nat
            BY <1>1, FieldTypes
        <3>2. QED
            BY <2>3, <2>4, <2>5, <3>1 DEF Follows, Tended
    <2>6. QED
        BY <2>1, <2>3, <2>4, <2>5 DEF e
<1>3. CASE r.left # 0
    <2> DEFINE k == [d EXCEPT !.transactionList = Append(@, r)]
    <2>1. Append(d.transactionList, r) \in Seq(Requests)
        BY <1>1, FieldTypes, AppendProperties
    <2>2. /\ k \in Contexts /\ k.state = d.state /\ k.server = d.server /\ k.bootstrap = d.bootstrap
          /\ k.timeout = d.timeout
        BY <1>1, <2>1 DEF Contexts
    <2>3. e = Within(k, r.left)
        BY <1>3 DEF TransactionTurn
    <2>. HIDE DEF k, e
    <2>4. /\ e \in Contexts /\ e.state = d.state /\ e.server = d.server /\ e.bootstrap = d.bootstrap
          /\ e.timeout <= d.timeout /\ e.timeout \in Nat
        BY <1>1, <2>2, <2>3, WithinFacts, FieldTypes
    <2>5. e \in Sound /\ Follows(d, e)
        BY <2>4, SameSound DEF Follows
    <2>6. ASSUME NEW s \in Servers, Tended(d, s) PROVE Tended(e, s)
        <3>1. d.server[s].left \in Nat
            BY <1>1, FieldTypes
        <3>2. QED
            BY <1>1, <2>4, <2>6, <3>1 DEF Tended
    <2>7. QED
        BY <2>4, <2>5, <2>6 DEF e
<1>4. QED
    BY <1>2, <1>3

\* transaction_step, one request after the other.
LEMMA TransactionPasses ==
    ASSUME NEW c \in Sound, NEW n, n = Len(c.transactionList)
    PROVE  \E h \in [0..n -> Sound] :
                /\ h[0] = [c EXCEPT !.transactionList = <<>>] /\ h[n] = TransactionStep(c)
                /\ \A i \in 1..n : h[i] = TransactionTurn(h[i - 1], c.transactionList[i])
<1> DEFINE q == c.transactionList
           b == [c EXCEPT !.transactionList = <<>>]
           E(it) == it = [s \in SUBSET DOMAIN q |->
                            IF s = {} THEN b ELSE TransactionTurn(it[s \ {Max(s)}], q[Max(s)])]
           g == [i \in 1..n |-> [d \in Sound |-> TransactionTurn(d, q[i])]]
           F == CHOOSE it : E(it)
<1>1. n \in Nat /\ q \in [1..n -> Requests] /\ DOMAIN q = 1..n
    <2>1. q \in Seq(Requests)
        BY FieldTypes DEF Sound
    <2>2. QED
        BY <2>1, LenProperties
<1>2. TransactionStep(c) = F[DOMAIN q]
    BY DEF TransactionStep, FoldLeft, MapThenFoldSet, TransactionTurn
<1>3. g \in [1..n -> [Sound -> Sound]]
    BY <1>1, TransactionTurnFacts
<1>4. \A s \in SUBSET (1..n) : s # {} => Max(s) \in 1..n /\ s \ {Max(s)} \in SUBSET (1..n)
    BY <1>1, GreatestExists
<1>5. \A s \in SUBSET (1..n), d \in Sound : s # {} => g[Max(s)][d] = TransactionTurn(d, q[Max(s)])
    BY <1>4
<1>6. b \in Sound
    <2>1. b \in Contexts /\ b.state = c.state /\ b.server = c.server /\ b.bootstrap = c.bootstrap
        BY EmptySeq DEF Sound, Contexts
    <2>2. QED
        BY <2>1, SameSound
<1>. HIDE DEF q, g, b
<1>7. \E it : E(it)
    <2>1. PICK it \in [SUBSET (1..n) -> Sound] : Iterates(it, n, b, g)
        BY <1>1, <1>3, <1>6, IterationExists, Zenon
    <2>2. \A s \in SUBSET (1..n) :
                it[s] = IF s = {} THEN b ELSE TransactionTurn(it[s \ {Max(s)}], q[Max(s)])
        BY <1>4, <1>5, <2>1 DEF Iterates
    <2>3. E(it)
        BY <1>1, <2>1, <2>2
    <2>4. QED
        BY <2>3
<1>8. E(F)
    <2>. HIDE DEF E
    <2>. QED
        BY <1>7, Zenon
<1>. HIDE DEF F
<1>9. /\ F[{}] = b
      /\ \A s \in SUBSET (1..n) : s # {} => F[s] = TransactionTurn(F[s \ {Max(s)}], q[Max(s)])
    <2>1. \A s \in SUBSET (1..n) : F[s] =
                IF s = {} THEN b ELSE TransactionTurn(F[s \ {Max(s)}], q[Max(s)])
        BY <1>1, <1>8
    <2>2. {} \in SUBSET (1..n)
        OBVIOUS
    <2>3. QED
        BY <2>1, <2>2
<1>. HIDE DEF E
<1>10. IteratesIn(Sound, F, n, b, g)
    BY <1>5, <1>9 DEF IteratesIn
<1>11. PICK h \in [0..n -> Sound] : h[n] = F[1..n] /\ Passes(h, n, b, g)
    BY <1>1, <1>3, <1>6, <1>10, PassesOf, Zenon
<1>12. \A i \in 1..n : h[i] = TransactionTurn(h[i - 1], q[i])
    <2>1. \A i \in 1..n : i - 1 \in 0..n
        BY <1>1
    <2>2. \A i \in 1..n : h[i - 1] \in Sound
        BY <1>11, <2>1
    <2>3. QED
        BY <1>11, <2>2 DEF g, Passes
<1>13. QED
    BY <1>1, <1>2, <1>11, <1>12 DEF q, b, Passes

\* transaction_step gives requests up, and the servers stay seen to.
LEMMA TransactionStepFacts ==
    ASSUME NEW c \in Sound, \A s \in Servers : Tended(c, s)
    PROVE  LET e == TransactionStep(c)
           IN  /\ e \in Sound /\ e.state \in {c.state, "BOOTSTRAP_REQUIRED"} /\ Follows(c, e)
               /\ \A s \in Servers : Tended(e, s)
<1> DEFINE n == Len(c.transactionList)
           q == c.transactionList
<1>1. n \in Nat /\ q \in [1..n -> Requests]
    <2>1. q \in Seq(Requests)
        BY FieldTypes DEF Sound
    <2>2. QED
        BY <2>1, LenProperties
<1>2. PICK h \in [0..n -> Sound] :
                /\ h[0] = [c EXCEPT !.transactionList = <<>>] /\ h[n] = TransactionStep(c)
                /\ \A i \in 1..n : h[i] = TransactionTurn(h[i - 1], c.transactionList[i])
    BY TransactionPasses
<1> DEFINE P(i) == /\ h[i].state \in {c.state, "BOOTSTRAP_REQUIRED"} /\ Follows(c, h[i])
                   /\ \A s \in Servers : Tended(h[i], s)
           S == {i \in 0..n : P(i)}
<1>. HIDE DEF n
<1>3. 0 \in S
    <2>1. 0 \in 0..n
        BY <1>1
    <2>2. h[0].state = c.state /\ h[0].server = c.server /\ h[0].timeout = c.timeout
        BY <1>2 DEF Sound, Contexts
    <2>3. Follows(c, h[0]) /\ \A s \in Servers : Tended(h[0], s)
        BY <2>2 DEF Follows, Tended
    <2>4. QED
        BY <2>1, <2>2, <2>3
<1>4. ASSUME NEW i \in 0..n, i \in S, i # n PROVE i + 1 \in S
    <2> DEFINE d == h[i]
               e == h[i + 1]
    <2>1. i + 1 \in 1..n /\ i + 1 \in 0..n /\ (i + 1) - 1 = i
        BY <1>1, <1>4
    <2>2. d \in Sound /\ q[i + 1] \in Requests /\ e = TransactionTurn(d, q[i + 1])
        BY <1>1, <1>2, <2>1
    <2>3. P(i)
        BY <1>4
    <2>4. /\ e \in Sound /\ e.state \in {d.state, "BOOTSTRAP_REQUIRED"} /\ Follows(d, e)
          /\ \A s \in Servers : Tended(e, s)
        BY <2>2, <2>3, TransactionTurnFacts
    <2>. HIDE DEF d, e
    <2>5. Follows(c, e)
        BY <2>3, <2>4, FollowsTrans DEF d
    <2>6. P(i + 1)
        BY <2>3, <2>4, <2>5 DEF d, e
    <2>. HIDE DEF P
    <2>7. QED
        BY <2>1, <2>6
<1>5. n \in S
    <2>. HIDE DEF S
    <2>1. \A i \in 0..n : i \in S
        BY <1>1, <1>3, <1>4, Induction
    <2>2. QED
        BY <1>1, <2>1
<1>6. P(n) /\ n \in 0..n
    BY <1>1, <1>5
<1>7. QED
    BY <1>2, <1>6

-----------------------------------------------------------------------------
(* Client: lwm2m_step *)

\* A server that object_getServers makes.
LEMMA NewServerFacts ==
    ASSUME Held, NEW s \in Servers
    PROVE  LET x == NewServer(s, objects)
           IN  /\ x \in ServerRecords /\ x.status = "DEREGISTERED" /\ ~x.dirty
               /\ x.made = objects.written[s] /\ x.lifetime = Config[s].lifetime
               /\ s \in objects.server => Config[s] \in Accounts
<1>1. objects.written[s] \in Nat /\ Config[s].lifetime \in Nat
    BY ConfigType DEF Held, Objects
<1>2. NoServer \in ServerRecords /\ NoServer.dirty = FALSE
    BY DEF NoServer, ServerRecords, ServerStatuses
<1>3. s \in objects.server => Config[s] \in Accounts
    BY DEF Held, Objects, Config
<1>4. QED
    BY <1>1, <1>2, <1>3 DEF NewServer, ServerRecords, ServerStatuses, Config

\* object_getServers makes servers, and touches none.
LEMMA GetServersFacts ==
    ASSUME NEW c \in Contexts, Held
    PROVE  LET o == objects
               d == GetServers(c, o)
           IN  /\ d \in Contexts
               /\ d.state = c.state /\ d.timeout = c.timeout /\ d.corrupt = c.corrupt
               /\ d.transactionList = c.transactionList
               /\ \A s \in Servers : \/ d.server[s] = c.server[s]
                                     \/ /\ c.server[s].status = "none"
                                        /\ d.server[s] = NewServer(s, o)
                                        /\ s \in o.security /\ s \in o.server
               /\ \/ d.bootstrap = c.bootstrap
                  \/ d.bootstrap = NewBootstrap
<1> DEFINE o == objects
           new == {i \in Unknown(c, o) : \A b \in Unknown(c, o) \cap o.bad : i < b}
           B == IF Bootstrap \in new THEN NewBootstrap ELSE c.bootstrap
           X == [s \in Servers |-> IF s \in new \cap o.server THEN NewServer(s, o) ELSE c.server[s]]
<1>1. GetServers(c, o) = [c EXCEPT !.bootstrap = B, !.server = X]
    BY DEF GetServers
<1>2. /\ \A s \in Servers : NewServer(s, o) \in ServerRecords
      /\ NewBootstrap \in BootstrapRecords
    BY NewServerFacts DEF NewBootstrap, BootstrapRecords, BsStatuses
<1>3. B \in BootstrapRecords /\ B \in {c.bootstrap, NewBootstrap}
    BY <1>2, FieldTypes
<1>4. ASSUME NEW s \in Servers
      PROVE  /\ X[s] \in ServerRecords
             /\ \/ X[s] = c.server[s]
                \/ /\ c.server[s].status = "none" /\ X[s] = NewServer(s, o)
                   /\ s \in o.security /\ s \in o.server
    <2>1. s \in new => c.server[s].status = "none" /\ s \in o.security
        BY ServerIds DEF Unknown
    <2>2. QED
        BY <1>2, <2>1, FieldTypes
<1>5. X \in [Servers -> ServerRecords]
    BY <1>4
<1>. HIDE DEF B, X, new
<1>6. QED
    BY <1>1, <1>3, <1>4, <1>5 DEF Contexts

\* object_getServers keeps a context sound.
LEMMA GetServersSound ==
    ASSUME NEW c \in Sound
    PROVE  GetServers(c, objects) \in Sound /\ Steady(c, GetServers(c, objects))
<1> DEFINE o == objects
           d == GetServers(c, o)
<1>1. c \in Contexts /\ Held
    BY DEF Sound
<1>2. /\ d \in Contexts /\ d.state = c.state
      /\ \A s \in Servers : \/ d.server[s] = c.server[s]
                            \/ /\ c.server[s].status = "none"
                               /\ d.server[s] = NewServer(s, o)
                               /\ s \in o.security /\ s \in o.server
      /\ \/ d.bootstrap = c.bootstrap
         \/ d.bootstrap = NewBootstrap
    BY <1>1, GetServersFacts
<1>. HIDE DEF d
<1> DEFINE New(s) == NewServer(s, o)
<1>3. /\ NewBootstrap.sessionH = FALSE
      /\ \A s \in Servers :
            /\ New(s).status = "DEREGISTERED" /\ ~New(s).dirty
            /\ New(s).made = objects.written[s] /\ New(s).lifetime = Config[s].lifetime
            /\ s \in objects.server => Config[s] \in Accounts
    BY <1>1, NewServerFacts DEF NewBootstrap
<1>. HIDE DEF New
<1>4. SessionOK(d) /\ Cleaned(d) /\ Made(d)
    <2>1. \A s \in Servers : d.server[s] = c.server[s] \/
            (d.server[s] = New(s) /\ s \in objects.security /\ s \in objects.server)
        BY <1>2 DEF New
    <2>2. Cleaned(d)
        BY <1>2, <1>3, <2>1 DEF Sound, Cleaned
    <2>3. Made(d)
        BY <1>2, <1>3, <2>1 DEF Sound, Made, Origin
    <2>4. SessionOK(d)
        BY <1>2, <1>3 DEF Sound, SessionOK
    <2>5. QED
        BY <2>2, <2>3, <2>4
<1>5. Counted(d)
    BY <1>2, <1>3 DEF Sound, Counted, CountOK, New
<1>6. Steady(c, d)
    BY <1>2, <1>3 DEF Steady, New
<1>7. QED
    BY <1>1, <1>2, <1>4, <1>5, <1>6 DEF Sound, d

\* What a step leaves alone at first: but the servers that are freed.
SteadyButFreed(c, d) ==
    \A s \in Servers :
        /\ c.server[s].status = "REG_PENDING" /\ ~c.server[s].dirty =>
                /\ d.server[s].status = "REG_PENDING"
                /\ d.server[s].rewritten => c.server[s].rewritten
        /\ d.server[s].status = "REGISTERED" =>
                /\ c.server[s].status = "REGISTERED"
                /\ d.server[s].left = c.server[s].left /\ d.server[s].age = c.server[s].age
                /\ d.server[s].lifetime = c.server[s].lifetime
                /\ d.server[s].changed = c.server[s].changed

\* prv_refreshServerList frees the servers that were tagged.
LEMMA RefreshFacts ==
    ASSUME NEW c \in Sound, ~c.bootstrap.sessionH
    PROVE  LET d == [Refresh(c, objects) EXCEPT !.state = "INITIAL"]
           IN  /\ d \in Sound /\ d.state = "INITIAL"
               /\ \A s \in Servers : ~d.server[s].dirty
               /\ SteadyButFreed(c, d)
<1> DEFINE o == objects
           dirty == {s \in Servers : c.server[s].dirty}
           freed == dirty \cup IF c.bootstrap.dirty THEN {Bootstrap} ELSE {}
           b == IF c.bootstrap.dirty \/ c.bootstrap.status = "none" THEN NoBootstrap
                ELSE [c.bootstrap EXCEPT !.status = "DEREGISTERED"]
           cut == Cut(c, freed, "freed")
           X == [s \in Servers |-> IF s \in dirty THEN NoServer ELSE cut.server[s]]
           kept == [cut EXCEPT !.bootstrap = b, !.server = X]
           d == [Refresh(c, o) EXCEPT !.state = "INITIAL"]
<1>1. c \in Contexts /\ Held
    BY DEF Sound
<1>2. /\ cut \in Contexts /\ cut.state = c.state /\ cut.server = c.server
      /\ cut.bootstrap = c.bootstrap
    BY <1>1, CutFacts
<1>3. Refresh(c, o) = GetServers(kept, o)
    BY DEF Refresh
<1>4. b \in BootstrapRecords /\ b.sessionH = FALSE
    <2>1. c.bootstrap \in BootstrapRecords /\ c.bootstrap.sessionH = FALSE
        BY <1>1, FieldTypes
    <2>2. QED
        BY <2>1 DEF NoBootstrap, NewBootstrap, BootstrapRecords, BsStatuses
<1>5. ASSUME NEW s \in Servers
      PROVE  /\ X[s] \in ServerRecords
             /\ \/ c.server[s].dirty /\ X[s] = NoServer
                \/ ~c.server[s].dirty /\ X[s] = c.server[s]
    BY <1>1, <1>2, FieldTypes DEF NoServer, ServerRecords, ServerStatuses
<1>6. X \in [Servers -> ServerRecords]
    BY <1>5
<1>. HIDE DEF cut, X, b, dirty, freed
<1>7. kept \in Contexts /\ kept.server = X /\ kept.bootstrap = b
    BY <1>2, <1>4, <1>6 DEF Contexts
<1>. HIDE DEF kept
<1> DEFINE g == GetServers(kept, o)
<1>8. /\ g \in Contexts
      /\ \A s \in Servers : \/ g.server[s] = kept.server[s]
                            \/ /\ kept.server[s].status = "none" /\ g.server[s] = NewServer(s, o)
                               /\ s \in o.security /\ s \in o.server
      /\ \/ g.bootstrap = kept.bootstrap
         \/ g.bootstrap = NewBootstrap
    BY <1>1, <1>7, GetServersFacts
<1>. HIDE DEF g
<1>9. /\ d \in Contexts /\ d.state = "INITIAL" /\ d.server = g.server /\ d.bootstrap = g.bootstrap
    BY <1>3, <1>8 DEF Contexts, States, g
<1>. HIDE DEF d
<1> DEFINE New(s) == NewServer(s, o)
<1>10. /\ \A s \in Servers :
            /\ New(s).status = "DEREGISTERED" /\ ~New(s).dirty
            /\ New(s).made = objects.written[s] /\ New(s).lifetime = Config[s].lifetime
            /\ s \in objects.server => Config[s] \in Accounts
       /\ NoServer.status = "none" /\ NoServer.dirty = FALSE /\ NoServer.location = FALSE
       /\ NewBootstrap.sessionH = FALSE
    BY <1>1, NewServerFacts DEF NoServer, NewBootstrap
<1>11. \A s \in Servers :
            \/ d.server[s] = New(s) /\ s \in objects.security /\ s \in objects.server
            \/ d.server[s] = NoServer
            \/ d.server[s] = c.server[s] /\ ~c.server[s].dirty
    BY <1>5, <1>7, <1>8, <1>9
<1>. HIDE DEF New
<1>12. ~d.bootstrap.sessionH
    BY <1>4, <1>7, <1>8, <1>9, <1>10
<1>13. \A s \in Servers : ~d.server[s].dirty
    BY <1>10, <1>11
<1>14. SessionOK(d) /\ Cleaned(d)
    BY <1>9, <1>12 DEF SessionOK, Cleaned
<1>15. Made(d)
    BY <1>10, <1>11 DEF Made, Sound, Origin
<1>16. Counted(d)
    BY <1>10, <1>11 DEF Sound, Counted, CountOK
<1>17. SteadyButFreed(c, d)
    <2>1. ASSUME NEW s \in Servers, c.server[s].status = "REG_PENDING", ~c.server[s].dirty
          PROVE  d.server[s] = c.server[s]
        BY <1>5, <1>7, <1>8, <1>9, <2>1
    <2>2. ASSUME NEW s \in Servers, d.server[s].status = "REGISTERED"
          PROVE  d.server[s] = c.server[s]
        BY <1>10, <1>11, <2>2
    <2>3. QED
        BY <2>1, <2>2 DEF SteadyButFreed
<1>18. QED
    BY <1>1, <1>9, <1>13, <1>14, <1>15, <1>16, <1>17 DEF Sound, d

\* lwm2m_step up to the last "goto next_step".
LEMMA SettleFacts ==
    ASSUME NEW c \in Sound
    PROVE  LET e == Settle(c, objects) IN e \in Sound /\ SteadyButFreed(c, e)
<1> DEFINE o == objects
           finished == c.state = "BOOTSTRAPPING" /\ c.bootstrap.status = "BS_FINISHED"
           d == IF finished \/ c.state = "INITIAL"
                THEN [Refresh(c, o) EXCEPT !.state = "INITIAL"] ELSE c
           e == Settle(c, o)
<1>1. SteadyButFreed(c, c)
    BY DEF SteadyButFreed
<1>2. /\ d \in Sound /\ d \in Contexts /\ SteadyButFreed(c, d)
      /\ d.state = "INITIAL" => \A s \in Servers : ~d.server[s].dirty
    <2>1. CASE finished \/ c.state = "INITIAL"
        <3>1. ~c.bootstrap.sessionH
            BY <2>1 DEF Sound, SessionOK, BsPending
        <3>2. QED
            BY <2>1, <3>1, RefreshFacts DEF Sound
    <2>2. CASE ~(finished \/ c.state = "INITIAL")
        BY <1>1, <2>2 DEF Sound
    <2>3. QED
        BY <2>1, <2>2
<1> DEFINE next(state) == [d EXCEPT !.state = state]
<1>3. \/ d.state = "INITIAL" /\ e \in {next("REGISTER_REQUIRED"), next("BOOTSTRAP_REQUIRED")}
      \/ d.state \in {"REGISTERING", "READY"} /\ Exhausted(d) /\ e = next("BOOTSTRAP_REQUIRED")
      \/ e = d
    <2>. HIDE DEF d
    <2>1. e = CASE d.state = "INITIAL" /\ CanGetServers(d, o) ->
                        [d EXCEPT !.state = IF Listed(d) # {} THEN "REGISTER_REQUIRED"
                                                              ELSE "BOOTSTRAP_REQUIRED"]
                [] d.state \in {"REGISTERING", "READY"} /\ Exhausted(d) ->
                        [d EXCEPT !.state = "BOOTSTRAP_REQUIRED"]
                [] OTHER -> d
        BY DEF Settle, d
    <2>2. QED
        BY <2>1
<1>. HIDE DEF d, e
<1>4. ASSUME NEW state \in {"REGISTER_REQUIRED", "BOOTSTRAP_REQUIRED"},
             \/ d.state = "INITIAL"
             \/ state = "BOOTSTRAP_REQUIRED" /\ d.state \in {"REGISTERING", "READY"} /\ Exhausted(d)
      PROVE  next(state) \in Sound /\ SteadyButFreed(c, next(state))
    <2> DEFINE n == next(state)
    <2>1. n \in Contexts /\ n.state = state /\ n.server = d.server /\ n.bootstrap = d.bootstrap
        BY <1>2 DEF Contexts, States
    <2>. HIDE DEF n
    <2>2. ~d.bootstrap.sessionH
        BY <1>2, <1>4 DEF Sound, SessionOK
    <2>3. SessionOK(n) /\ Cleaned(n)
        BY <1>2, <1>4, <2>1, <2>2 DEF SessionOK, Cleaned
    <2>4. Made(n)
        BY <1>2, <2>1 DEF Sound, Made
    <2>5. Counted(n)
        BY <1>2, <2>1 DEF Sound, Counted
    <2>6. SteadyButFreed(c, n)
        BY <1>2, <2>1 DEF SteadyButFreed
    <2>7. QED
        BY <1>2, <2>1, <2>3, <2>4, <2>5, <2>6 DEF Sound, n
<1>5. CASE e = d
    BY <1>2, <1>5 DEF e
<1>. HIDE DEF next
<1>6. CASE d.state = "INITIAL" /\ e \in {next("REGISTER_REQUIRED"), next("BOOTSTRAP_REQUIRED")}
    BY <1>4, <1>6 DEF e
<1>7. CASE d.state \in {"REGISTERING", "READY"} /\ Exhausted(d) /\ e = next("BOOTSTRAP_REQUIRED")
    BY <1>4, <1>7 DEF e
<1>8. QED
    BY <1>3, <1>5, <1>6, <1>7

\* A context with the same servers, still idle.
LEMMA SteadyAfter ==
    ASSUME NEW c \in Sound, NEW d \in Contexts, d.server = c.server,
           d.state \in IdleStates \ {"INITIAL"},
           d.bootstrap.sessionH => d.bootstrap.status \in BsPending
    PROVE  d \in Sound /\ Steady(c, d)
<1>1. SessionOK(d) /\ Cleaned(d)
    BY DEF SessionOK, Cleaned, IdleStates
<1>2. Counted(d) /\ Made(d)
    BY DEF Sound, Counted, Made
<1>3. QED
    BY <1>1, <1>2, SteadySelf DEF Sound

\* The bootstrap's record is replaced.
LEMMA BootstrapRecord ==
    ASSUME NEW c \in Contexts, NEW b \in BootstrapRecords
    PROVE  LET d == [c EXCEPT !.bootstrap = b]
           IN  d \in Contexts /\ d.state = c.state /\ d.server = c.server /\ d.bootstrap = b
BY DEF Contexts

\* Once a step of it is done, a bootstrap with a connection is under way.
LEMMA BootstrapStepFacts ==
    ASSUME NEW c \in Contexts, NEW reach,
           c.bootstrap.sessionH => c.bootstrap.status \in BsPending \cup {"DEREGISTERED"}
    PROVE  LET e == BootstrapStep(c, reach)
           IN  /\ e \in Contexts /\ e.state = c.state /\ e.server = c.server
               /\ e.bootstrap.sessionH => e.bootstrap.status \in BsPending
<1> DEFINE b == c.bootstrap
           e == BootstrapStep(c, reach)
<1>1. /\ b \in BootstrapRecords /\ b.left \in Nat /\ HoldOff \in Nat /\ 0 \in Nat
      /\ {"BS_HOLD_OFF", "BS_INITIATED", "BS_FAILING"} \subseteq BsStatuses \cap BsPending
      /\ {"BS_FAILED", "BS_FINISHED"} \subseteq BsStatuses
    BY FieldTypes, ConstantsAssumption DEF BsStatuses, BsPending
<1>2. CASE b.status = "DEREGISTERED"
    <2> DEFINE x == [b EXCEPT !.status = "BS_HOLD_OFF", !.left = HoldOff]
               d == [c EXCEPT !.bootstrap = x]
    <2>1. x \in BootstrapRecords /\ x.status = "BS_HOLD_OFF"
        BY <1>1 DEF BootstrapRecords
    <2>2. d \in Contexts /\ d.state = c.state /\ d.server = c.server /\ d.bootstrap = x
        BY <2>1, BootstrapRecord
    <2>3. e = Within(d, HoldOff)
        BY <1>2 DEF BootstrapStep
    <2>. HIDE DEF d, x, e
    <2>4. e \in Contexts /\ e.state = c.state /\ e.server = c.server /\ e.bootstrap = x
        BY <1>1, <2>2, <2>3, WithinFacts
    <2>5. QED
        BY <1>1, <2>1, <2>4 DEF e
<1>3. CASE b.status \in {"BS_HOLD_OFF", "BS_PENDING"} /\ b.left # 0
    <2>1. e = Within(c, b.left)
        BY <1>3 DEF BootstrapStep
    <2>2. b.status \in BsPending
        BY <1>3 DEF BsPending
    <2>. HIDE DEF e
    <2>3. QED
        BY <1>1, <2>1, <2>2, WithinFacts DEF e
<1>4. CASE b.status = "BS_HOLD_OFF" /\ b.left = 0
    <2>1. e = RequestBootstrap(c, reach)
        BY <1>4 DEF BootstrapStep
    <2>2. CASE b.sessionH \/ Bootstrap \in reach
        <3> DEFINE d == Send(c, Bootstrap, "bootstrap")
                   x == [b EXCEPT !.status = "BS_INITIATED", !.sessionH = TRUE]
        <3>1. Bootstrap \in Instances /\ "bootstrap" \in RequestKinds
            BY DEF Instances, RequestKinds
        <3>2. /\ d \in Contexts /\ d.state = c.state /\ d.server = c.server /\ d.bootstrap = b
            BY <3>1, SendFacts
        <3>3. e = [d EXCEPT !.bootstrap = x]
            BY <2>1, <2>2, <3>2 DEF RequestBootstrap, Contexts
        <3>4. x \in BootstrapRecords /\ x.status = "BS_INITIATED"
            BY <1>1 DEF BootstrapRecords
        <3>. HIDE DEF d, x, e
        <3>5. QED
            BY <1>1, <3>2, <3>3, <3>4, BootstrapRecord DEF e
    <2>3. CASE ~(b.sessionH \/ Bootstrap \in reach)
        <3> DEFINE x == [b EXCEPT !.status = "BS_FAILED"]
        <3>1. e = [c EXCEPT !.bootstrap = x]
            BY <2>1, <2>3 DEF RequestBootstrap, Contexts
        <3>2. x \in BootstrapRecords /\ ~x.sessionH
            BY <1>1, <2>3 DEF BootstrapRecords
        <3>. HIDE DEF x, e
        <3>3. QED
            BY <3>1, <3>2, BootstrapRecord DEF e
    <2>4. QED
        BY <2>2, <2>3
<1>5. CASE b.status = "BS_PENDING" /\ b.left = 0
    <2> DEFINE x == [b EXCEPT !.status = "BS_FAILING"]
               d == [c EXCEPT !.bootstrap = x]
    <2>1. x \in BootstrapRecords /\ x.status = "BS_FAILING"
        BY <1>1 DEF BootstrapRecords
    <2>2. d \in Contexts /\ d.state = c.state /\ d.server = c.server /\ d.bootstrap = x
        BY <2>1, BootstrapRecord
    <2>3. e = Within(d, 0)
        BY <1>5 DEF BootstrapStep, Contexts
    <2>. HIDE DEF d, x, e
    <2>4. QED
        BY <1>1, <2>1, <2>2, <2>3, WithinFacts DEF e
<1>6. CASE b.status \in {"BS_FINISHING", "BS_FAILING"}
    <2>1. PICK status \in {"BS_FINISHED", "BS_FAILED"} : e = EndBootstrap(c, status)
        BY <1>6 DEF BootstrapStep
    <2> DEFINE x == [b EXCEPT !.status = status, !.sessionH = FALSE]
               d == [c EXCEPT !.bootstrap = x]
               w == Within(d, 0)
    <2>2. x \in BootstrapRecords /\ ~x.sessionH
        BY <1>1 DEF BootstrapRecords
    <2>3. d \in Contexts /\ d.state = c.state /\ d.server = c.server /\ d.bootstrap = x
        BY <2>2, BootstrapRecord
    <2>4. e = Cut(w, {Bootstrap}, "closed")
        BY <2>1 DEF EndBootstrap
    <2>. HIDE DEF d, x, e
    <2>5. w \in Contexts /\ w.state = c.state /\ w.server = c.server /\ w.bootstrap = x
        BY <1>1, <2>3, WithinFacts
    <2>. HIDE DEF w
    <2>6. QED
        BY <2>2, <2>4, <2>5, CutFacts DEF e
<1>7. CASE b.status \notin {"DEREGISTERED", "BS_HOLD_OFF", "BS_PENDING", "BS_FINISHING", "BS_FAILING"}
    <2>1. e = c
        BY <1>7 DEF BootstrapStep
    <2>2. QED
        BY <1>7, <2>1
<1>8. QED
    BY <1>2, <1>3, <1>4, <1>5, <1>6, <1>7

\* registration_start for servers that have failed too.
LEMMA StartSteady ==
    ASSUME Held, NEW c \in Contexts
    PROVE  Steady(c, RegistrationStart(c, TRUE))
<1> DEFINE d == RegistrationStart(c, TRUE)
<1>1. \A s \in Servers :
            \/ d.server[s] = c.server[s]
            \/ /\ c.server[s].status \in StartsOf(TRUE)
               /\ d.server[s].status \in {c.server[s].status, "REG_HOLD_OFF"}
    BY StartFacts
<1>. HIDE DEF d
<1>2. QED
    BY <1>1 DEF Steady, StartsOf, d

\* The rest of lwm2m_step before registration_step, when it does not fail.
LEMMA AdvanceFacts ==
    ASSUME NEW c \in Sound, NEW reach, ~Fails(c)
    PROVE  LET e == Advance(c, reach)
           IN  e \in Sound /\ Steady(c, e) /\ e.state # "INITIAL"
<1> DEFINE e == Advance(c, reach)
<1>1. c \in Contexts /\ c.state \in States /\ c.state # "INITIAL" /\ Held
    BY FieldTypes DEF Sound, Fails
<1>2. CASE c.state = "BOOTSTRAP_REQUIRED"
    <2> DEFINE x == [c.bootstrap EXCEPT !.status = "DEREGISTERED",
                                        !.sessionH = @ \/ Bootstrap \in reach]
               s == BootstrapStart(c, reach)
               k == [s EXCEPT !.state = "BOOTSTRAPPING"]
    <2>1. x \in BootstrapRecords /\ x.status = "DEREGISTERED"
        <3>1. c.bootstrap \in BootstrapRecords
            BY <1>1, FieldTypes
        <3>2. QED
            BY <3>1 DEF BootstrapRecords, BsStatuses
    <2>2. e = BootstrapStep(k, reach)
        BY <1>2 DEF Advance
    <2>5. s = [c EXCEPT !.bootstrap = x]
        BY <1>1 DEF BootstrapStart, Contexts, BootstrapRecords
    <2>. HIDE DEF x, e, s
    <2>3. k \in Contexts /\ k.state = "BOOTSTRAPPING" /\ k.server = c.server /\ k.bootstrap = x
        BY <1>1, <2>1, <2>5 DEF Contexts, States
    <2>. HIDE DEF k
    <2>4. /\ e \in Contexts /\ e.state = "BOOTSTRAPPING" /\ e.server = c.server
          /\ e.bootstrap.sessionH => e.bootstrap.status \in BsPending
        BY <2>1, <2>2, <2>3, BootstrapStepFacts
    <2>6. e \in Sound /\ Steady(c, e)
        BY <1>2, <2>4, SteadyAfter DEF IdleStates
    <2>7. QED
        BY <2>4, <2>6 DEF e
<1>3. CASE c.state = "BOOTSTRAPPING"
    <2>1. e = BootstrapStep(c, reach)
        BY <1>3 DEF Advance
    <2>. HIDE DEF e
    <2>2. c.bootstrap.status \in BsPending
        BY <1>3 DEF Fails
    <2>3. /\ e \in Contexts /\ e.state = "BOOTSTRAPPING" /\ e.server = c.server
          /\ e.bootstrap.sessionH => e.bootstrap.status \in BsPending
        BY <1>1, <1>3, <2>1, <2>2, BootstrapStepFacts
    <2>4. e \in Sound /\ Steady(c, e)
        BY <1>3, <2>3, SteadyAfter DEF IdleStates
    <2>5. QED
        BY <2>3, <2>4 DEF e
<1>4. CASE c.state = "REGISTER_REQUIRED"
    <2> DEFINE d == RegistrationStart(c, TRUE)
    <2>1. TRUE \in BOOLEAN
        OBVIOUS
    <2>2. d \in Sound /\ Steady(c, d) /\ d.state = c.state /\ d \in Contexts
        BY <1>1, <2>1, StartSound, StartSteady, StartFacts
    <2>3. e = [d EXCEPT !.state = "REGISTERING"]
        BY <1>4 DEF Advance
    <2>. HIDE DEF d, e
    <2>4. e \in Contexts /\ e.state = "REGISTERING" /\ e.server = d.server /\ e.bootstrap = d.bootstrap
        BY <2>2, <2>3 DEF Contexts, States
    <2>5. SessionOK(e) /\ Cleaned(e) /\ Counted(e) /\ Made(e)
        BY <1>4, <2>2, <2>4 DEF Sound, SessionOK, Cleaned, Counted, Made
    <2>6. Steady(c, e)
        BY <2>2, <2>4 DEF Steady
    <2>7. QED
        BY <1>1, <2>4, <2>5, <2>6 DEF Sound, e
<1>5. CASE c.state = "REGISTERING" /\ RegistrationStatus(c) = "REGISTERED"
    <2>1. e = [c EXCEPT !.state = "READY"]
        BY <1>5 DEF Advance
    <2>. HIDE DEF e
    <2>2. e \in Contexts /\ e.state = "READY" /\ e.server = c.server /\ e.bootstrap = c.bootstrap
        BY <1>1, <2>1 DEF Contexts, States
    <2>3. SessionOK(e) /\ Cleaned(e) /\ Counted(e) /\ Made(e)
        BY <1>5, <2>2 DEF Sound, SessionOK, Cleaned, Counted, Made
    <2>4. QED
        BY <1>1, <2>2, <2>3, SteadySelf DEF Sound, e
<1>6. CASE c.state = "READY" \/ (c.state = "REGISTERING" /\ RegistrationStatus(c) # "REGISTERED")
    <2>1. e = c
        BY <1>6 DEF Advance
    <2>2. QED
        BY <1>1, <2>1, SteadySelf
<1>7. QED
    BY <1>1, <1>2, <1>3, <1>4, <1>5, <1>6 DEF States

-----------------------------------------------------------------------------
(* lwm2m_deregister *)

\* registration_deregister of one server.
LEMMA DeregisterServerFacts ==
    ASSUME NEW c \in Sound, NEW s \in Servers
    PROVE  LET e == DeregisterServer(c, s)
           IN  e \in Sound /\ e.state = c.state /\ e.timeout = c.timeout /\ Steady(c, e)
<1> DEFINE x == c.server[s]
           r == [NewRequest(s, "deregister") EXCEPT !.link = IF x.sessionH THEN "open" ELSE "closed"]
           y == [x EXCEPT !.status = "DEREG_PENDING"]
           sent == [c EXCEPT !.transactionList = Append(@, r)]
           e == DeregisterServer(c, s)
           goes == x.location /\ x.status \notin {"DEREGISTERED", "REG_PENDING", "DEREG_PENDING", "REG_FAILED"}
<1>1. c \in Contexts /\ x \in ServerRecords
    BY FieldTypes DEF Sound
<1>2. CASE goes
    <2>1. r \in Requests
        BY ServerIds, ConstantsAssumption DEF NewRequest, Requests, RequestKinds
    <2>2. Append(c.transactionList, r) \in Seq(Requests)
        BY <1>1, <2>1, FieldTypes, AppendProperties
    <2>3. /\ sent \in Contexts /\ sent.state = c.state /\ sent.server = c.server
          /\ sent.bootstrap = c.bootstrap /\ sent.timeout = c.timeout
        BY <1>1, <2>2 DEF Contexts
    <2>4. e = [sent EXCEPT !.server[s] = y]
        BY <1>1, <1>2 DEF DeregisterServer, Contexts
    <2>6. x.status # "none" /\ x.status # "REG_PENDING"
        BY <1>2 DEF Sound, Counted, CountOK
    <2>5. y \in ServerRecords /\ y.status = "DEREG_PENDING" /\ SameServer(x, y)
        BY <1>1, <2>6 DEF ServerRecords, ServerStatuses, Registered, SameServer
    <2>. HIDE DEF sent, y, e
    <2>7. sent \in Sound
        BY <2>3, SameSound
    <2>8. CountOK(y, Config[s])
        BY <2>5 DEF CountOK
    <2>9. e \in Sound
        BY <2>3, <2>4, <2>5, <2>6, <2>7, <2>8, ServerChange
    <2>10. /\ e.server[s] = y /\ \A t \in Servers : t # s => e.server[t] = c.server[t]
           /\ e.state = c.state /\ e.timeout = c.timeout
        BY <2>3, <2>4 DEF Contexts
    <2>11. Steady(c, e)
        BY <2>5, <2>6, <2>10 DEF Steady
    <2>12. QED
        BY <2>9, <2>10, <2>11 DEF e
<1>3. CASE ~goes
    <2>1. e = c
        BY <1>3 DEF DeregisterServer
    <2>2. QED
        BY <2>1, SteadySelf
<1>4. QED
    BY <1>2, <1>3

\* lwm2m_deregister, one server after the other.
LEMMA DeregisterPasses ==
    ASSUME NEW c \in Sound, NEW n, n = Cardinality(Servers)
    PROVE  \E h \in [0..n -> Sound] :
                /\ h[0] = c /\ h[n] = DeregisterAll(c)
                /\ \A i \in 1..n : h[i] = DeregisterServer(h[i - 1], ServerList[i])
<1> DEFINE q == ServerList
           E(it) == it = [s \in SUBSET DOMAIN q |->
                            IF s = {} THEN c ELSE DeregisterServer(it[s \ {Max(s)}], q[Max(s)])]
           g == [i \in 1..n |-> [d \in Sound |-> DeregisterServer(d, q[i])]]
           F == CHOOSE it : E(it)
<1>1. n \in Nat /\ q \in [1..n -> Servers] /\ DOMAIN q = 1..n
    BY ServerListFacts
<1>2. DeregisterAll(c) = F[DOMAIN q]
    BY DEF DeregisterAll, FoldLeft, MapThenFoldSet
<1>3. g \in [1..n -> [Sound -> Sound]]
    BY <1>1, DeregisterServerFacts
<1>4. \A s \in SUBSET (1..n) : s # {} => Max(s) \in 1..n /\ s \ {Max(s)} \in SUBSET (1..n)
    BY <1>1, GreatestExists
<1>5. \A s \in SUBSET (1..n), d \in Sound : s # {} => g[Max(s)][d] = DeregisterServer(d, q[Max(s)])
    BY <1>4
<1>. HIDE DEF q, g
<1>6. \E it : E(it)
    <2>1. PICK it \in [SUBSET (1..n) -> Sound] : Iterates(it, n, c, g)
        BY <1>1, <1>3, IterationExists, Zenon
    <2>2. \A s \in SUBSET (1..n) :
                it[s] = IF s = {} THEN c ELSE DeregisterServer(it[s \ {Max(s)}], q[Max(s)])
        BY <1>4, <1>5, <2>1 DEF Iterates
    <2>3. E(it)
        BY <1>1, <2>1, <2>2
    <2>4. QED
        BY <2>3
<1>7. E(F)
    <2>. HIDE DEF E
    <2>. QED
        BY <1>6, Zenon
<1>. HIDE DEF F
<1>8. /\ F[{}] = c
      /\ \A s \in SUBSET (1..n) : s # {} =>
            F[s] = DeregisterServer(F[s \ {Max(s)}], q[Max(s)])
    <2>1. \A s \in SUBSET (1..n) : F[s] =
                IF s = {} THEN c ELSE DeregisterServer(F[s \ {Max(s)}], q[Max(s)])
        BY <1>1, <1>7
    <2>2. {} \in SUBSET (1..n)
        OBVIOUS
    <2>3. QED
        BY <2>1, <2>2
<1>. HIDE DEF E
<1>9. IteratesIn(Sound, F, n, c, g)
    BY <1>5, <1>8 DEF IteratesIn
<1>10. PICK h \in [0..n -> Sound] : h[n] = F[1..n] /\ Passes(h, n, c, g)
    BY <1>1, <1>3, <1>9, PassesOf, Zenon
<1>11. \A i \in 1..n : h[i] = DeregisterServer(h[i - 1], q[i])
    <2>1. \A i \in 1..n : i - 1 \in 0..n
        BY <1>1
    <2>2. \A i \in 1..n : h[i - 1] \in Sound
        BY <1>10, <2>1
    <2>3. QED
        BY <1>10, <2>2 DEF g, Passes
<1>12. QED
    BY <1>1, <1>2, <1>10, <1>11 DEF q, Passes

\* lwm2m_deregister keeps a context sound, and registers nobody.
LEMMA DeregisterFacts ==
    ASSUME NEW c \in Sound
    PROVE  LET e == DeregisterAll(c)
           IN  e \in Sound /\ e.state = c.state /\ e.timeout = c.timeout /\ Steady(c, e)
<1> DEFINE n == Cardinality(Servers)
<1>1. n \in Nat /\ ServerList \in [1..n -> Servers]
    BY ServerListFacts
<1>2. PICK h \in [0..n -> Sound] :
                /\ h[0] = c /\ h[n] = DeregisterAll(c)
                /\ \A i \in 1..n : h[i] = DeregisterServer(h[i - 1], ServerList[i])
    BY DeregisterPasses
<1> DEFINE P(i) == h[i].state = c.state /\ h[i].timeout = c.timeout /\ Steady(c, h[i])
           S == {i \in 0..n : P(i)}
<1>. HIDE DEF n
<1>3. 0 \in S
    BY <1>1, <1>2, SteadySelf
<1>4. ASSUME NEW i \in 0..n, i \in S, i # n PROVE i + 1 \in S
    <2> DEFINE d == h[i]
               e == h[i + 1]
    <2>1. i + 1 \in 1..n /\ i + 1 \in 0..n /\ (i + 1) - 1 = i
        BY <1>1, <1>4
    <2>2. d \in Sound /\ ServerList[i + 1] \in Servers /\ e = DeregisterServer(d, ServerList[i + 1])
        BY <1>1, <1>2, <2>1
    <2>3. e.state = d.state /\ e.timeout = d.timeout /\ Steady(d, e)
        BY <2>2, DeregisterServerFacts
    <2>4. P(i)
        BY <1>4
    <2>. HIDE DEF d, e
    <2>5. P(i + 1)
        BY <2>3, <2>4, SteadyTrans DEF d, e
    <2>. HIDE DEF P
    <2>6. QED
        BY <2>1, <2>5
<1>5. n \in S
    <2>. HIDE DEF S
    <2>1. \A i \in 0..n : i \in S
        BY <1>1, <1>3, <1>4, Induction
    <2>2. QED
        BY <1>1, <2>1
<1>6. P(n) /\ n \in 0..n
    BY <1>1, <1>5
<1>7. QED
    BY <1>2, <1>6

\* A bootstrap under way goes on.
LEMMA Replies ==
    ASSUME NEW c \in Sound, NEW b \in BootstrapRecords,
           c.bootstrap.sessionH, b.status \in BsPending
    PROVE  LET d == [c EXCEPT !.bootstrap = b]
           IN  d \in Sound /\ Steady(c, d) /\ d.state = c.state /\ d.timeout = c.timeout
<1> DEFINE d == [c EXCEPT !.bootstrap = b]
<1>1. c \in Contexts /\ c.state \in IdleStates \ {"INITIAL"}
    BY DEF Sound, SessionOK, IdleStates
<1>2. /\ d \in Contexts /\ d.state = c.state /\ d.server = c.server /\ d.bootstrap = b
      /\ d.timeout = c.timeout
    BY <1>1 DEF Contexts
<1>. HIDE DEF d
<1>3. QED
    BY <1>1, <1>2, SteadyAfter DEF d, IdleStates

-----------------------------------------------------------------------------
(* Client: commands of the bootstrap server *)

\* prv_checkServerStatus: from then on the bootstrap is under way.
LEMMA CheckFacts ==
    ASSUME NEW c \in Sound, TakesCommands(c)
    PROVE  LET d == CheckServerStatus(c)
           IN  /\ d \in Sound /\ Steady(c, d) /\ d.timeout = c.timeout
               /\ d.state \in IdleStates \ {"INITIAL"}
<1> DEFINE d == CheckServerStatus(c)
           b == c.bootstrap
<1>1. c \in Contexts /\ b \in BootstrapRecords /\ b.sessionH /\ COAP_EXCHANGE_LIFETIME \in Nat
    BY FieldTypes, ConstantsAssumption DEF Sound, TakesCommands
<1>2. b.status \in BsPending /\ c.state \in IdleStates \ {"INITIAL"}
    BY <1>1 DEF Sound, SessionOK, IdleStates
<1>3. PICK x \in BootstrapRecords : x.status \in BsPending /\ d = [c EXCEPT !.bootstrap = x]
    <2>1. CASE b.status \in {"BS_HOLD_OFF", "BS_INITIATED"}
        <3>1. [b EXCEPT !.status = "BS_PENDING"] \in BootstrapRecords
            BY <1>1 DEF BootstrapRecords, BsStatuses, BsPending
        <3>2. d = [c EXCEPT !.bootstrap = [b EXCEPT !.status = "BS_PENDING"]]
            BY <1>1, <2>1 DEF CheckServerStatus, Contexts
        <3>3. [b EXCEPT !.status = "BS_PENDING"].status \in BsPending
            BY <1>1 DEF BootstrapRecords, BsPending
        <3>4. QED
            BY <3>1, <3>2, <3>3
    <2>2. CASE b.status \notin {"BS_HOLD_OFF", "BS_INITIATED"}
        <3>1. [b EXCEPT !.left = COAP_EXCHANGE_LIFETIME] \in BootstrapRecords
            BY <1>1 DEF BootstrapRecords
        <3>2. d = [c EXCEPT !.bootstrap = [b EXCEPT !.left = COAP_EXCHANGE_LIFETIME]]
            BY <1>1, <2>2 DEF CheckServerStatus, Contexts
        <3>3. [b EXCEPT !.left = COAP_EXCHANGE_LIFETIME].status \in BsPending
            BY <1>1, <1>2 DEF BootstrapRecords
        <3>4. QED
            BY <3>1, <3>2, <3>3
    <2>3. QED
        BY <2>1, <2>2
<1>4. QED
    BY <1>1, <1>2, <1>3, Replies

\* prv_tagServer and prv_tagAllServer, while the client is idle: whoever is listed
\* is tagged.
LEMMA TagFacts ==
    ASSUME NEW c \in Sound, NEW I, c.state \in IdleStates
    PROVE  LET d == Tag(c, I)
           IN  /\ d \in Sound /\ Steady(c, d) /\ d.timeout = c.timeout /\ d.state = c.state
               /\ \A s \in Servers \cap I : d.server[s].status = "none" \/ d.server[s].dirty
<1> DEFINE tagged(i, x) == IF i \in I /\ x.status # "none" THEN [x EXCEPT !.dirty = TRUE] ELSE x
           X == [s \in Servers |-> tagged(s, c.server[s])]
           b == tagged(Bootstrap, c.bootstrap)
           d == Tag(c, I)
<1>1. c \in Contexts
    BY DEF Sound
<1>2. /\ b \in BootstrapRecords /\ b.status = c.bootstrap.status /\ b.sessionH = c.bootstrap.sessionH
    <2>1. c.bootstrap \in BootstrapRecords
        BY <1>1, FieldTypes
    <2>2. QED
        BY <2>1 DEF BootstrapRecords
<1>3. ASSUME NEW s \in Servers
      PROVE  /\ X[s] \in ServerRecords
             /\ X[s].status = c.server[s].status /\ X[s].left = c.server[s].left
             /\ X[s].age = c.server[s].age /\ X[s].attempt = c.server[s].attempt
             /\ X[s].sequence = c.server[s].sequence /\ X[s].tries = c.server[s].tries
             /\ X[s].location = c.server[s].location /\ X[s].lifetime = c.server[s].lifetime
             /\ X[s].made = c.server[s].made /\ X[s].astray = c.server[s].astray
             /\ X[s].rewritten = c.server[s].rewritten /\ X[s].changed = c.server[s].changed
             /\ X[s].dirty = c.server[s].dirty \/ X[s].dirty = TRUE
             /\ s \in I => X[s].status = "none" \/ X[s].dirty
    <2>1. c.server[s] \in ServerRecords
        BY <1>1, FieldTypes
    <2>2. QED
        BY <2>1 DEF ServerRecords
<1>4. X \in [Servers -> ServerRecords]
    BY <1>3
<1>5. d = [c EXCEPT !.bootstrap = b, !.server = X]
    BY DEF Tag
<1>. HIDE DEF b, X, d
<1>6. /\ d \in Contexts /\ d.state = c.state /\ d.server = X /\ d.bootstrap = b /\ d.timeout = c.timeout
    BY <1>1, <1>2, <1>4, <1>5 DEF Contexts
<1>7. SessionOK(d) /\ Cleaned(d) /\ Made(d) /\ Held
    <2>1. SessionOK(d) /\ Cleaned(d) /\ Held
        BY <1>2, <1>6 DEF Sound, SessionOK, Cleaned, IdleStates
    <2>2. ASSUME NEW s \in Servers PROVE Origin(d.server[s], s)
        <3>1. Origin(c.server[s], s)
            BY DEF Sound, Made
        <3>2. QED
            BY <1>3, <1>6, <3>1 DEF Origin
    <2>3. QED
        BY <2>1, <2>2 DEF Made
<1>8. ASSUME NEW s \in Servers PROVE CountOK(d.server[s], Config[s])
    <2>1. CountOK(c.server[s], Config[s])
        BY DEF Sound, Counted
    <2>2. QED
        BY <1>3, <1>6, <2>1 DEF CountOK
<1>9. Steady(c, d)
    BY <1>3, <1>6 DEF Steady
<1>10. QED
    BY <1>3, <1>6, <1>7, <1>8, <1>9 DEF Sound, Counted, d

\* The end of bootstrap_handleCommand.
LEMMA CommandedFacts ==
    ASSUME NEW c \in Sound, c.state \in IdleStates \ {"INITIAL"}
    PROVE  LET d == Commanded(c)
           IN  d \in Sound /\ Steady(c, d) /\ d.timeout = c.timeout /\ d.server = c.server
<1> DEFINE d == Commanded(c)
<1>1. c \in Contexts /\ c.bootstrap \in BootstrapRecords
    BY FieldTypes DEF Sound
<1>2. CASE c.bootstrap.status = "BS_PENDING"
    <2>1. d = c
        BY <1>2 DEF Commanded
    <2>2. QED
        BY <2>1, SteadySelf
<1>3. CASE c.bootstrap.status # "BS_PENDING"
    <2>1. d = [c EXCEPT !.bootstrap.status = "BS_PENDING", !.state = "BOOTSTRAPPING"]
        BY <1>3 DEF Commanded
    <2>. HIDE DEF d
    <2>2. /\ d \in Contexts /\ d.state = "BOOTSTRAPPING" /\ d.server = c.server
          /\ d.bootstrap.status = "BS_PENDING" /\ d.timeout = c.timeout
        BY <1>1, <2>1 DEF Contexts, States, BootstrapRecords, BsStatuses, BsPending
    <2>3. QED
        BY <2>2, SteadyAfter DEF IdleStates, BsPending, d
<1>4. QED
    BY <1>2, <1>3

-----------------------------------------------------------------------------
(* The actions *)

\* The invariant: types, and a sound context.
Inv == ClientTypeOK /\ context \in Sound

\* What packets and calls leave alone, but for answers.
Still(c, d) ==
    \A s \in Servers :
        LET x == c.server[s]
            y == d.server[s]
        IN  /\ x.status = "REG_PENDING" => y.status = "REG_PENDING"
            /\ y.status = "REGISTERED" /\ ~y.changed =>
                    /\ x.status = "REGISTERED" /\ ~x.changed
                    /\ y.left = x.left /\ y.age = x.age /\ y.lifetime = x.lifetime

\* What packets and calls do, but for answers.
Calm == /\ Still(context, context') /\ awake' /\ sleep' = 0
        /\ previousState' = previousState /\ over' = over

\* The objects, by their fields.
Shapes == [security : SUBSET Instances, bad : SUBSET Instances, server : SUBSET Servers,
           account : [Servers -> Configs], written : [Instances -> Nat]]
Fits(server, account) ==
    \A s \in Servers : IF s \in server THEN account[s] \in Accounts ELSE account[s] = Default
LEMMA ObjectsAre == Objects = {o \in Shapes : Fits(o.server, o.account)}
BY DEF Objects, Shapes, Fits

\* What commands make of the objects.
LEMMA ObjectsTypes ==
    ASSUME Held
    PROVE  /\ objects \in Objects /\ Touched \subseteq Instances
           /\ \A i \in Instances, good \in BOOLEAN :
                Written(i, good) \in Objects /\ Written(i, good).account = Config
           /\ \A I : Without(I) \in Objects /\ Without(I).account = Config
           /\ \A s \in Servers, f \in Accounts :
                LET o == WithAccount(s, f)
                IN  o \in Objects /\ o.written = objects.written /\ o.security = objects.security
           /\ \A o \in Objects : \A I :
                LET p == WithoutAccounts(o, I)
                IN  p \in Objects /\ p.written = o.written /\ p.security = o.security
<1>1. objects \in Objects /\ Touched \subseteq Instances /\ Accounts \subseteq Configs /\ Default \in Configs
    BY ConstantsAssumption DEF Held
<1>2. \A o \in Objects : o \in Shapes /\ Fits(o.server, o.account)
    BY ObjectsAre
<1>3. ASSUME NEW i \in Instances, NEW good \in BOOLEAN
      PROVE  Written(i, good) \in Objects /\ Written(i, good).account = Config
    <2> DEFINE o == Written(i, good)
               sec == objects.security \cup {i}
               bad == IF good THEN objects.bad \ {i} ELSE objects.bad \cup {i}
               w == [objects.written EXCEPT ![i] = objects.written[i] + 1]
    <2>1. sec \in SUBSET Instances /\ bad \in SUBSET Instances /\ w \in [Instances -> Nat]
        BY <1>1, <1>2 DEF Shapes
    <2>2. o = [objects EXCEPT !.security = sec, !.written = w, !.bad = bad]
        BY <1>1, <1>2 DEF Written, Shapes
    <2>. HIDE DEF sec, bad, w, o
    <2>3. o \in Shapes /\ o.server = objects.server /\ o.account = Config
        BY <1>1, <1>2, <2>1, <2>2 DEF Shapes, Config
    <2>4. QED
        BY <1>1, <1>2, <2>3, ObjectsAre DEF o, Config
<1>4. ASSUME NEW I PROVE Without(I) \in Objects /\ Without(I).account = Config
    <2> DEFINE o == Without(I)
               sec == objects.security \ I
               bad == objects.bad \ I
               w == [i \in Instances |-> IF i \in I THEN objects.written[i] + 1 ELSE objects.written[i]]
    <2>1. sec \in SUBSET Instances /\ bad \in SUBSET Instances /\ w \in [Instances -> Nat]
        BY <1>1, <1>2 DEF Shapes
    <2>2. o = [objects EXCEPT !.security = sec, !.bad = bad, !.written = w]
        BY <1>1, <1>2 DEF Without, Shapes
    <2>. HIDE DEF sec, bad, w, o
    <2>3. o \in Shapes /\ o.server = objects.server /\ o.account = Config
        BY <1>1, <1>2, <2>1, <2>2 DEF Shapes, Config
    <2>4. QED
        BY <1>1, <1>2, <2>3, ObjectsAre DEF o, Config
<1>5. ASSUME NEW s \in Servers, NEW f \in Accounts
      PROVE  LET o == WithAccount(s, f)
             IN  o \in Objects /\ o.written = objects.written /\ o.security = objects.security
    <2> DEFINE o == WithAccount(s, f)
               S == objects.server \cup {s}
               A == [objects.account EXCEPT ![s] = f]
    <2>1. S \in SUBSET Servers /\ A \in [Servers -> Configs] /\ Fits(S, A)
        BY <1>1, <1>2 DEF Shapes, Fits
    <2>2. o = [objects EXCEPT !.server = S, !.account = A]
        BY <1>1, <1>2 DEF WithAccount, Shapes
    <2>. HIDE DEF S, A, o
    <2>3. /\ o \in Shapes /\ o.server = S /\ o.account = A
          /\ o.written = objects.written /\ o.security = objects.security
        BY <1>1, <1>2, <2>1, <2>2 DEF Shapes
    <2>4. QED
        BY <2>1, <2>3, ObjectsAre DEF o
<1>6. ASSUME NEW o \in Objects, NEW I
      PROVE  LET p == WithoutAccounts(o, I)
             IN  p \in Objects /\ p.written = o.written /\ p.security = o.security
    <2> DEFINE p == WithoutAccounts(o, I)
               S == o.server \ I
               A == [s \in Servers |-> IF s \in I THEN Default ELSE o.account[s]]
    <2>1. S \in SUBSET Servers /\ A \in [Servers -> Configs] /\ Fits(S, A)
        BY <1>1, <1>2 DEF Shapes, Fits
    <2>2. p = [o EXCEPT !.server = S, !.account = A]
        BY DEF WithoutAccounts
    <2>. HIDE DEF S, A, p
    <2>3. /\ p \in Shapes /\ p.server = S /\ p.account = A
          /\ p.written = o.written /\ p.security = o.security
        BY <1>2, <2>1, <2>2 DEF Shapes
    <2>4. QED
        BY <2>1, <2>3, ObjectsAre DEF p
<1>7. QED
    BY <1>1, <1>3, <1>4, <1>5, <1>6

\* A command moves an instance of the Security Object on only when no server that is
\* to be kept was made from it.
Moves(o, d) ==
    \A s \in Servers :
        \/ o.written[s] = objects.written[s] /\ (s \in o.security <=> s \in objects.security)
        \/ /\ o.written[s] > objects.written[s]
           /\ d.server[s].status = "none" \/ d.server[s].dirty \/ d.server[s].astray

\* The record of a server whose account may no longer be what it was.
Remarked(x, o, s) == [x EXCEPT !.rewritten = x.rewritten \/ o.account[s] # Config[s]]

\* The marks a command leaves on servers whose account it changes.
LEMMA RereadFacts ==
    ASSUME NEW c \in Contexts, NEW o
    PROVE  LET d == Reread(c, o)
           IN  /\ d \in Contexts /\ d.state = c.state /\ d.bootstrap = c.bootstrap
               /\ d.timeout = c.timeout
               /\ \A s \in Servers :
                    d.server[s] = Remarked(c.server[s], o, s)
<1> DEFINE R(s) == c.server[s].rewritten \/ o.account[s] # Config[s]
           X == [s \in Servers |-> [c.server[s] EXCEPT !.rewritten = R(s)]]
<1>1. \A s \in Servers : R(s) \in BOOLEAN
    OBVIOUS
<1>2. \A s \in Servers : X[s] = [c.server[s] EXCEPT !.rewritten = R(s)]
    OBVIOUS
<1>3. Reread(c, o) = [c EXCEPT !.server = X]
    BY DEF Reread
<1>. HIDE DEF R
<1>4. \A s \in Servers : X[s] \in ServerRecords
    BY <1>1, FieldTypes DEF ServerRecords
<1>5. X \in [Servers -> ServerRecords]
    BY <1>4
<1>. HIDE DEF X
<1>6. [c EXCEPT !.server = X] \in Contexts
    BY <1>5 DEF Contexts
<1>7. QED
    BY <1>2, <1>3, <1>5, <1>6 DEF Contexts, R, Remarked

\* What a mark leaves of the count of a server's requests.
LEMMA Marked ==
    ASSUME NEW x \in ServerRecords, NEW y, NEW f, NEW g, CountOK(x, f),
           y.status = x.status, y.location = x.location, y.attempt = x.attempt,
           y.sequence = x.sequence, y.tries = x.tries,
           ~y.rewritten => ~x.rewritten /\ g = f
    PROVE  CountOK(y, g)
BY DEF CountOK

\* The objects become others, and the context stays sound: the servers a command
\* concerns are tagged, or marked.
LEMMA MovedSound ==
    ASSUME NEW d \in Sound, objects' \in Objects, Moves(objects', d),
           backup' = backup, previousState' = previousState,
           context' \in Contexts, context'.state = d.state, context'.bootstrap = d.bootstrap,
           \A s \in Servers :
                context'.server[s] = Remarked(d.server[s], objects', s)
    PROVE  (context \in Sound)'
<1>1. d \in Contexts /\ Held /\ context' \in Contexts
    BY DEF Sound
<1>2. ASSUME NEW s \in Servers
      PROVE  LET x == d.server[s]
                 y == context'.server[s]
             IN  /\ x \in ServerRecords
                 /\ y.status = x.status /\ y.location = x.location /\ y.attempt = x.attempt
                 /\ y.sequence = x.sequence /\ y.tries = x.tries /\ y.dirty = x.dirty
                 /\ y.lifetime = x.lifetime /\ y.made = x.made /\ y.astray = x.astray
                 /\ ~y.rewritten => ~x.rewritten /\ objects'.account[s] = Config[s]
    <2>1. d.server[s] \in ServerRecords
        BY <1>1, FieldTypes
    <2>2. QED
        BY <2>1 DEF ServerRecords, Remarked
<1>3. ASSUME NEW s \in Servers
      PROVE  /\ objects.written[s] \in Nat /\ objects'.written[s] \in Nat /\ backup.written[s] \in Nat
    BY <1>1, ServerIds DEF Held, Objects
<1>4. Held'
    <2>1. ASSUME previousState' = "BOOTSTRAPPING", NEW s \in Servers PROVE Grown(s)'
        <3>1. Grown(s)
            BY <1>1, <2>1 DEF Held
        <3>2. \/ objects'.written[s] = objects.written[s] /\ (s \in objects'.security <=> s \in objects.security)
              \/ objects'.written[s] > objects.written[s]
            BY DEF Moves
        <3>3. QED
            BY <1>3, <3>1, <3>2 DEF Grown
    <2>2. backup' \in Objects
        BY <1>1 DEF Held
    <2>3. QED
        BY <2>1, <2>2 DEF Held
<1>5. SessionOK(context') /\ Cleaned(context')
    BY <1>2 DEF Sound, SessionOK, Cleaned
<1>6. ASSUME NEW s \in Servers PROVE CountOK(context'.server[s], objects'.account[s])
    <2>1. CountOK(d.server[s], Config[s])
        BY DEF Sound, Counted
    <2>2. QED
        BY <1>2, <2>1, Marked
<1>7. ASSUME NEW s \in Servers PROVE Origin(context.server[s], s)'
    <2>1. Origin(d.server[s], s)
        BY DEF Sound, Made
    <2>2. QED
        BY <1>2, <2>1 DEF Origin, Moves
<1>8. QED
    BY <1>1, <1>4, <1>5, <1>6, <1>7 DEF Sound, SessionOK, Cleaned, Counted, Made, Config

\* The objects stay, and so do the accounts.
LEMMA SoundAfter ==
    ASSUME objects' = objects, backup' = backup, previousState' = previousState,
           context' \in Sound
    PROVE  (context \in Sound)'
<1>1. Held' /\ \A s \in Servers : Config'[s] = Config[s]
    BY DEF Sound, Held, Grown, Config
<1>2. QED
    BY <1>1 DEF Sound, SessionOK, Cleaned, Counted, Made, Origin

\* The commands leave the accounts as they are, or mark whose they change.
LEMMA Unmarked ==
    ASSUME NEW d \in Contexts, NEW o, \A s \in Servers : o.account[s] = Config[s], NEW s \in Servers
    PROVE  d.server[s] = Remarked(d.server[s], o, s)
<1>1. d.server[s] \in ServerRecords /\ d.server[s].rewritten \in BOOLEAN
    BY FieldTypes
<1>2. (d.server[s].rewritten \/ o.account[s] # Config[s]) = d.server[s].rewritten
    BY <1>1
<1>3. QED
    BY <1>1, <1>2 DEF ServerRecords, Remarked

\* A handler that keeps more.
LEMMA SteadyStill == \A c, d : Steady(c, d) => Still(c, d)
BY DEF Steady, Still

\* One after the other.
LEMMA StillTrans ==
    ASSUME NEW c, NEW d, NEW e, Still(c, d), Still(d, e)
    PROVE  Still(c, e)
BY DEF Still

\* prv_updateServerInfo gives a server another lifetime, of some account.
LEMMA UpdateServerInfoFacts ==
    ASSUME NEW c \in Sound, NEW s \in Servers, NEW f \in Accounts
    PROVE  LET d == UpdateServerInfo(c, s, f.lifetime)
           IN  d \in Sound /\ Still(c, d) /\ d.timeout = c.timeout
<1> DEFINE l == f.lifetime
           x == c.server[s]
           due == x.left + NextUpdate(l)
           n == IF due > NextUpdate(x.lifetime) THEN due - NextUpdate(x.lifetime) ELSE 0
           k == IF x.status = "REGISTERED" THEN n ELSE x.left
           y == [x EXCEPT !.lifetime = l, !.changed = x.changed \/ l # x.lifetime, !.left = k]
           d == UpdateServerInfo(c, s, l)
<1>1. c \in Contexts /\ Held /\ x \in ServerRecords /\ x.left \in Nat /\ x.lifetime \in Nat /\ x.changed \in BOOLEAN
    BY FieldTypes DEF Sound
<1>2. l \in Nat
    BY ConstantsAssumption DEF Configs
<1>3. NextUpdate(l) \in Nat /\ NextUpdate(x.lifetime) \in Nat
    BY <1>1, <1>2, NextUpdateType
<1>4. k \in Nat /\ (x.status = "REGISTERED" /\ l = x.lifetime => k = x.left)
    BY <1>1, <1>2, <1>3
<1>5. d = IF x.status = "none" THEN c ELSE [c EXCEPT !.server[s] = y]
    BY <1>1 DEF UpdateServerInfo, Contexts
<1>. HIDE DEF k
<1>6. /\ y \in ServerRecords /\ y.status = x.status /\ y.lifetime = l /\ y.left = k
      /\ y.changed = (x.changed \/ l # x.lifetime) /\ y.age = x.age /\ y.dirty = x.dirty
      /\ y.made = x.made /\ y.astray = x.astray /\ y.location = x.location
      /\ y.attempt = x.attempt /\ y.sequence = x.sequence /\ y.tries = x.tries
      /\ y.rewritten = x.rewritten
    BY <1>1, <1>2, <1>4 DEF ServerRecords
<1>7. CASE x.status = "none"
    BY <1>5, <1>7 DEF Still
<1>8. CASE x.status # "none"
    <2>. HIDE DEF x, y, d
    <2>1. d = [c EXCEPT !.server[s] = y]
        BY <1>5, <1>8
    <2>2. /\ d \in Contexts /\ d.state = c.state /\ d.bootstrap = c.bootstrap /\ d.timeout = c.timeout
          /\ d.server[s] = y /\ \A t \in Servers \ {s} : d.server[t] = c.server[t]
        BY <1>1, <1>6, <2>1 DEF Contexts
    <2>3. SessionOK(d) /\ Cleaned(d)
        BY <1>6, <2>2 DEF Sound, SessionOK, Cleaned, x
    <2>4. CountOK(y, Config[s]) /\ Origin(y, s)
        <3>1. CountOK(x, Config[s]) /\ Origin(x, s)
            BY DEF Sound, Counted, Made, x
        <3>2. QED
            BY <1>6, <3>1 DEF CountOK, Origin, l
    <2>5. Counted(d) /\ Made(d)
        BY <2>2, <2>4 DEF Sound, Counted, Made
    <2>6. Still(c, d)
        BY <1>1, <1>4, <1>6, <2>2 DEF Still, x
    <2>7. QED
        BY <1>1, <2>2, <2>3, <2>5, <2>6 DEF Sound, d, l
<1>9. QED
    BY <1>7, <1>8 DEF d, l

\* A command of the bootstrap server, from what it does to the context and to the
\* objects.
LEMMA CommandKeeps ==
    ASSUME Inv, NEW d, NEW e, Command(e),
           TakesCommands(context) => d \in Sound /\ Still(context, d) /\ d.timeout = context.timeout,
           objects' \in Objects, d \in Sound => Moves(objects', d),
           \/ e = d /\ \A s \in Servers : objects'.account[s] = Config[s]
           \/ e = Reread(d, objects')
    PROVE  Inv' /\ Calm
<1>1. /\ context' = e /\ TakesCommands(context) /\ awake' = TRUE /\ sleep' = 0 /\ calls' = calls
      /\ commands' = commands + 1 /\ commands < MaxCommands
      /\ previousState' = previousState /\ backup' = backup /\ over' = over
    BY DEF Command, Handled, application
<1>2. d \in Sound /\ d \in Contexts /\ Still(context, d) /\ d.timeout = 0
    BY <1>1 DEF Inv, ClientTypeOK, Sound
<1>3. commands' \in 0..MaxCommands /\ sleep' \in 0..MaxSleep
    BY <1>1, ConstantsAssumption DEF Inv, ClientTypeOK
<1>4. /\ e \in Contexts /\ e.state = d.state /\ e.bootstrap = d.bootstrap /\ e.timeout = 0
      /\ \A s \in Servers :
            e.server[s] = Remarked(d.server[s], objects', s)
    <2>1. CASE e = d /\ \A s \in Servers : objects'.account[s] = Config[s]
        <3>. DEFINE o == objects'
        <3>1. \A s \in Servers : o.account[s] = Config[s]
            BY <2>1
        <3>. HIDE DEF o
        <3>2. \A s \in Servers :
                d.server[s] = Remarked(d.server[s], o, s)
            BY <1>2, <3>1, Unmarked
        <3>3. QED
            BY <1>2, <2>1, <3>2 DEF o
    <2>2. CASE e = Reread(d, objects')
        <3> DEFINE o == objects'
        <3>1. e = Reread(d, o)
            BY <2>2
        <3>. HIDE DEF o
        <3>2. /\ e \in Contexts /\ e.state = d.state /\ e.bootstrap = d.bootstrap
              /\ e.timeout = d.timeout
              /\ \A s \in Servers :
                    e.server[s] = Remarked(d.server[s], o, s)
            BY <1>2, <3>1, RereadFacts
        <3>3. QED
            BY <1>2, <3>2 DEF o
    <2>3. QED
        BY <2>1, <2>2
<1>5. (context \in Sound)'
    BY <1>1, <1>2, <1>4, MovedSound
<1>6. Still(context, e)
    <2>1. \A s \in Servers :
            /\ e.server[s].status = d.server[s].status /\ e.server[s].left = d.server[s].left
            /\ e.server[s].age = d.server[s].age /\ e.server[s].lifetime = d.server[s].lifetime
            /\ e.server[s].changed = d.server[s].changed
        <3>. SUFFICES ASSUME NEW s \in Servers
                      PROVE  /\ e.server[s].status = d.server[s].status
                             /\ e.server[s].left = d.server[s].left
                             /\ e.server[s].age = d.server[s].age
                             /\ e.server[s].lifetime = d.server[s].lifetime
                             /\ e.server[s].changed = d.server[s].changed
            OBVIOUS
        <3>1. d.server[s] \in ServerRecords
            BY <1>2, FieldTypes
        <3>2. e.server[s] = Remarked(d.server[s], objects', s)
            BY <1>4
        <3>3. QED
            BY <3>1, <3>2 DEF ServerRecords, Remarked
    <2>2. QED
        BY <1>2, <2>1 DEF Still
<1>7. ClientTypeOK'
    BY <1>1, <1>3, <1>4 DEF Inv, ClientTypeOK
<1>8. QED
    BY <1>1, <1>5, <1>6, <1>7 DEF Calm, Inv

\* Each command of the bootstrap server keeps the invariant, and registers nobody.
LEMMA CommandsKeep ==
    ASSUME Inv,
           \/ PutSecurity \/ PutServer \/ LoseServer \/ DeleteServer
           \/ DeleteSecurity \/ DeleteSecurityObject \/ HandleDeleteAll \/ OtherCommand
    PROVE  Inv' /\ Calm
<1> DEFINE c == CheckServerStatus(context)
           Fine(d) == TakesCommands(context) => d \in Sound /\ Still(context, d) /\ d.timeout = context.timeout
<1>1. /\ Held /\ objects \in Objects /\ context \in Sound
      /\ \A s \in Servers : objects.written[s] \in Nat
    BY ServerIds DEF Inv, Sound, Held, Objects
<1>2. TakesCommands(context) =>
            c \in Sound /\ Steady(context, c) /\ c.timeout = context.timeout /\ c.state \in IdleStates \ {"INITIAL"}
    BY <1>1, CheckFacts
<1>3. Fine(c) /\ Fine(Commanded(c))
    BY <1>2, CommandedFacts, SteadyTrans, SteadyStill
<1>. HIDE DEF c
<1>4. ASSUME NEW I
      PROVE  /\ Fine(Tag(c, I)) /\ Fine(Commanded(Tag(c, I)))
             /\ TakesCommands(context) =>
                    \A s \in Servers \cap I, d \in {Tag(c, I), Commanded(Tag(c, I))} :
                        d.server[s].status = "none" \/ d.server[s].dirty
    <2>1. ASSUME TakesCommands(context)
          PROVE  /\ Tag(c, I) \in Sound /\ Steady(context, Tag(c, I)) /\ Tag(c, I).timeout = context.timeout
                 /\ Tag(c, I).state \in IdleStates \ {"INITIAL"}
                 /\ \A s \in Servers \cap I : Tag(c, I).server[s].status = "none" \/ Tag(c, I).server[s].dirty
        <3>1. c.state \in IdleStates
            BY <1>2, <2>1
        <3>2. /\ Tag(c, I) \in Sound /\ Steady(c, Tag(c, I)) /\ Tag(c, I).timeout = c.timeout
              /\ Tag(c, I).state = c.state
              /\ \A s \in Servers \cap I : Tag(c, I).server[s].status = "none" \/ Tag(c, I).server[s].dirty
            BY <1>2, <2>1, <3>1, TagFacts
        <3>3. QED
            BY <1>2, <2>1, <3>2, SteadyTrans
    <2>2. QED
        BY <2>1, CommandedFacts, SteadyTrans, SteadyStill
<1>5. \A d : Moves(objects, d)
    BY DEF Moves
<1>6. ASSUME NEW d, NEW I, \A s \in Servers \cap I : d.server[s].status = "none" \/ d.server[s].dirty
      PROVE  Moves(Without(I), d)
    BY <1>1, <1>6, ServerIds DEF Moves, Without, Objects
<1>7. CASE PutSecurity
    <2>1. PICK i \in Touched, good \in BOOLEAN :
                Command(Commanded(WriteSecurity(c, i))) /\ objects' = Written(i, good)
        BY <1>7 DEF PutSecurity, c
    <2> DEFINE d == Commanded(WriteSecurity(c, i))
    <2>2. objects' \in Objects /\ \A s \in Servers : objects'.account[s] = Config[s]
        BY <1>1, <2>1, ObjectsTypes
    <2>3. Fine(d)
        BY <1>3, <1>4 DEF WriteSecurity
    <2>4. TakesCommands(context) /\ i \in Servers =>
                d.server[i].status = "none" \/ d.server[i].dirty \/ d.server[i].astray
        <3>1. CASE i \in objects.security
            BY <1>4, <3>1 DEF WriteSecurity
        <3>2. CASE i \notin objects.security
            BY <2>3, <3>2 DEF Sound, Made, Origin
        <3>3. QED
            BY <3>1, <3>2
    <2>. HIDE DEF d
    <2>5. TakesCommands(context) => Moves(objects', d)
        BY <1>1, <2>1, <2>4, ServerIds DEF Moves, Written, Objects
    <2>6. TakesCommands(context)
        BY <2>1 DEF Command
    <2>7. QED
        BY <2>1, <2>2, <2>3, <2>5, <2>6, CommandKeeps DEF d
<1>8. ASSUME NEW d, NEW o \in Objects, Fine(d), Rewrite(d, o),
             o.written = objects.written, o.security = objects.security
      PROVE  Inv' /\ Calm
    <2>1. Command(Reread(d, o)) /\ objects' = o
        BY <1>8 DEF Rewrite
    <2>2. Moves(objects', d)
        BY <1>8, <2>1 DEF Moves
    <2>3. QED
        BY <1>8, <2>1, <2>2, CommandKeeps
<1>9. CASE PutServer
    <2> DEFINE m == Commanded(c)
    <2>1. PICK s \in Servers, f \in Accounts :
                \/ Rewrite(m, WithAccount(s, f))
                \/ Rewrite(UpdateServerInfo(m, s, f.lifetime), WithAccount(s, f))
        BY <1>9 DEF PutServer, c
    <2>2. /\ WithAccount(s, f) \in Objects
          /\ WithAccount(s, f).written = objects.written /\ WithAccount(s, f).security = objects.security
        BY <1>1, ObjectsTypes
    <2>. HIDE DEF m
    <2>3. Fine(m) => Fine(UpdateServerInfo(m, s, f.lifetime))
        BY UpdateServerInfoFacts, StillTrans
    <2>4. Fine(m)
        BY <1>3 DEF m
    <2>5. QED
        BY <1>8, <2>1, <2>2, <2>3, <2>4
<1>10. CASE LoseServer \/ DeleteServer
    <2>1. PICK I : \/ Rewrite(c, WithoutAccounts(objects, I))
                   \/ Rewrite(Commanded(c), WithoutAccounts(objects, I))
        BY <1>10 DEF LoseServer, DeleteServer, c
    <2>2. /\ WithoutAccounts(objects, I) \in Objects
          /\ WithoutAccounts(objects, I).written = objects.written
          /\ WithoutAccounts(objects, I).security = objects.security
        BY <1>1, ObjectsTypes
    <2>3. QED
        BY <1>3, <1>8, <2>1, <2>2
<1>11. ASSUME NEW I, Command(Commanded(Tag(c, I))), objects' = Without(I)
       PROVE  Inv' /\ Calm
    <2>1. objects' \in Objects /\ \A s \in Servers : objects'.account[s] = Config[s]
        BY <1>1, <1>11, ObjectsTypes
    <2>2. TakesCommands(context)
        BY <1>11 DEF Command
    <2>3. Moves(objects', Commanded(Tag(c, I)))
        BY <1>4, <1>6, <1>11, <2>2
    <2>4. QED
        BY <1>4, <1>11, <2>1, <2>3, CommandKeeps
<1>12. CASE DeleteSecurity
    BY <1>11, <1>12 DEF DeleteSecurity, c
<1>13. CASE DeleteSecurityObject
    BY <1>11, <1>13 DEF DeleteSecurityObject, c
<1>14. CASE HandleDeleteAll
    <2> DEFINE o == WithoutAccounts(Without(Servers), Servers)
    <2>1. Command(Reread(Tag(c, Servers), o)) /\ objects' = o
        BY <1>14 DEF HandleDeleteAll, c
    <2>2. /\ o \in Objects /\ o.written = Without(Servers).written
          /\ o.security = Without(Servers).security
        BY <1>1, ObjectsTypes
    <2>3. TakesCommands(context)
        BY <2>1 DEF Command
    <2>. HIDE DEF o
    <2>4. Moves(Without(Servers), Tag(c, Servers))
        BY <1>4, <1>6, <2>3
    <2>5. Moves(o, Tag(c, Servers))
        BY <2>2, <2>4 DEF Moves
    <2>6. QED
        BY <1>4, <2>1, <2>2, <2>5, CommandKeeps
<1>15. CASE OtherCommand
    <2>1. Command(c) /\ objects' = objects
        BY <1>15 DEF OtherCommand, c
    <2>2. \A s \in Servers : objects'.account[s] = Config[s]
        BY <2>1 DEF Config
    <2>3. QED
        BY <1>1, <1>3, <1>5, <2>1, <2>2, CommandKeeps
<1>16. QED
    BY <1>7, <1>9, <1>10, <1>12, <1>13, <1>14, <1>15

-----------------------------------------------------------------------------
(* Client: calls of the user *)

\* A user's call leaves other servers alone, or asks a registered one for an update.
LEMMA AskedSound ==
    ASSUME NEW c \in Sound, NEW d \in Contexts, d.state = c.state, d.bootstrap = c.bootstrap,
           \A s \in Servers : \/ d.server[s] = c.server[s]
                              \/ /\ c.server[s].status \in Registered
                                 /\ d.server[s].status \in Registered \ {"REGISTERED"}
                                 /\ SameServer(c.server[s], d.server[s])
    PROVE  d \in Sound /\ Steady(c, d)
<1>1. SessionOK(d) /\ Cleaned(d) /\ Made(d)
    BY DEF Sound, SessionOK, Cleaned, Made, Origin, SameServer, Registered
<1>2. Counted(d)
    BY DEF Sound, Counted, CountOK, Registered
<1>3. Steady(c, d)
    BY DEF Steady, Registered
<1>4. QED
    BY <1>1, <1>2, <1>3 DEF Sound

\* lwm2m_update_registration keeps a status, or asks for an update.
LEMMA NeededFacts ==
    ASSUME NEW status \in ServerStatuses, NEW withObjects \in BOOLEAN
    PROVE  \/ UpdateNeeded(status, withObjects) = status
           \/ /\ status \in Registered
              /\ UpdateNeeded(status, withObjects) \in Registered \ {"REGISTERED"}
BY DEF UpdateNeeded, Registered

\* A call of the user, from what it does to the context.
LEMMA CallKeeps ==
    ASSUME Inv, NEW d \in Sound, Call(d), Steady(context, d), d.timeout = context.timeout
    PROVE  Inv' /\ Calm
<1>1. /\ context' = d /\ awake' = TRUE /\ sleep' = 0 /\ commands' = commands
      /\ calls' = calls + 1 /\ calls < MaxCalls /\ objects' = objects
      /\ previousState' = previousState /\ backup' = backup /\ over' = over
    BY DEF Call, Handled, application
<1>2. calls' \in 0..MaxCalls /\ sleep' \in 0..MaxSleep
    BY <1>1, ConstantsAssumption DEF Inv, ClientTypeOK
<1>3. ClientTypeOK'
    BY <1>1, <1>2 DEF Inv, ClientTypeOK, Sound
<1>4. (context \in Sound)'
    BY <1>1, SoundAfter
<1>5. QED
    BY <1>1, <1>3, <1>4, SteadyStill DEF Calm, Inv

\* Each call of the user, and the end of a bootstrap, keep the invariant, and
\* register nobody.
LEMMA CallsKeep ==
    ASSUME Inv, UpdateOne \/ UpdateAll \/ Deregister \/ HandleFinish
    PROVE  Inv' /\ Calm
<1>1. context \in Contexts /\ context \in Sound /\ Held
    BY DEF Inv, Sound
<1>2. CASE UpdateOne
    <2>1. PICK s \in Servers, withObjects \in BOOLEAN :
                Call(SetStatus(context, s, UpdateNeeded(context.server[s].status, withObjects)))
        BY <1>2 DEF UpdateOne, Listed
    <2> DEFINE status == UpdateNeeded(context.server[s].status, withObjects)
               d == SetStatus(context, s, status)
    <2>2. /\ context.server[s] \in ServerRecords /\ context.server[s].status \in ServerStatuses
          /\ \/ status = context.server[s].status
             \/ /\ context.server[s].status \in Registered
                /\ status \in Registered \ {"REGISTERED"}
        BY <1>1, FieldTypes, NeededFacts
    <2>3. status \in ServerStatuses
        BY <2>2 DEF ServerStatuses
    <2>. HIDE DEF status
    <2>4. /\ d \in Contexts /\ d.state = context.state /\ d.bootstrap = context.bootstrap
          /\ d.timeout = context.timeout
          /\ \A t \in Servers : t # s => d.server[t] = context.server[t]
          /\ d.server[s] = [context.server[s] EXCEPT !.status = status]
        BY <1>1, <2>2, <2>3 DEF SetStatus, Contexts, ServerRecords
    <2>5. /\ d.server[s].status = status
          /\ status # "none" \/ status = context.server[s].status => SameServer(context.server[s], d.server[s])
          /\ status = context.server[s].status => d.server[s] = context.server[s]
        BY <2>2, <2>4 DEF ServerRecords, SameServer, Registered
    <2>. HIDE DEF d
    <2>6. d \in Sound /\ Steady(context, d)
        BY <1>1, <2>2, <2>4, <2>5, AskedSound DEF Registered
    <2>7. Call(d)
        BY <2>1 DEF d, status
    <2>8. QED
        BY <2>4, <2>6, <2>7, CallKeeps
<1>3. CASE UpdateAll
    <2>1. PICK withObjects \in BOOLEAN :
            LET x(s) == context.server[s]
                new(s) == IF x(s).status \in {"REGISTERED", "REG_UPDATE_PENDING"}
                          THEN UpdateNeeded(x(s).status, withObjects) ELSE x(s).status
            IN  Call(IF Listed(context) = {} THEN GetServers(context, objects)
                     ELSE [context EXCEPT !.server =
                            [s \in Servers |-> [context.server[s] EXCEPT !.status = new(s)]]])
        BY <1>3 DEF UpdateAll
    <2> DEFINE new(s) == IF context.server[s].status \in {"REGISTERED", "REG_UPDATE_PENDING"}
                         THEN UpdateNeeded(context.server[s].status, withObjects)
                         ELSE context.server[s].status
               X == [s \in Servers |-> [context.server[s] EXCEPT !.status = new(s)]]
               d == [context EXCEPT !.server = X]
    <2>2. CASE Listed(context) = {}
        <3>1. Call(GetServers(context, objects))
            BY <2>1, <2>2
        <3>2. /\ GetServers(context, objects) \in Sound
              /\ Steady(context, GetServers(context, objects))
              /\ GetServers(context, objects).timeout = context.timeout
            BY <1>1, GetServersFacts, GetServersSound
        <3>3. QED
            BY <3>1, <3>2, CallKeeps
    <2>3. CASE Listed(context) # {}
        <3>1. Call(d)
            BY <2>1, <2>3
        <3>2. ASSUME NEW s \in Servers
              PROVE  /\ X[s] \in ServerRecords
                     /\ \/ X[s] = context.server[s]
                        \/ /\ context.server[s].status \in Registered
                           /\ X[s].status \in Registered \ {"REGISTERED"}
                           /\ SameServer(context.server[s], X[s])
            <4>1. context.server[s] \in ServerRecords /\ context.server[s].status \in ServerStatuses
                BY <1>1, FieldTypes
            <4>2. \/ new(s) = context.server[s].status
                  \/ /\ context.server[s].status \in Registered
                     /\ new(s) \in Registered \ {"REGISTERED"}
                BY <4>1, NeededFacts
            <4>3. new(s) \in ServerStatuses
                BY <4>1, <4>2 DEF ServerStatuses
            <4>. HIDE DEF new
            <4>4. QED
                BY <4>1, <4>2, <4>3 DEF ServerRecords, SameServer, Registered
        <3>3. X \in [Servers -> ServerRecords]
            BY <3>2
        <3>. HIDE DEF X
        <3>4. /\ d \in Contexts /\ d.state = context.state /\ d.bootstrap = context.bootstrap
              /\ d.timeout = context.timeout /\ d.server = X
            BY <1>1, <3>3 DEF Contexts
        <3>. HIDE DEF d
        <3>5. d \in Sound /\ Steady(context, d)
            BY <1>1, <3>2, <3>4, AskedSound
        <3>6. QED
            BY <3>1, <3>4, <3>5, CallKeeps
    <2>4. QED
        BY <2>2, <2>3
<1>4. CASE Deregister
    BY <1>1, <1>4, DeregisterFacts, CallKeeps DEF Deregister
<1>5. CASE HandleFinish
    <2> DEFINE b == [context.bootstrap EXCEPT !.status = "BS_FINISHING"]
               d == [context EXCEPT !.bootstrap = b]
    <2>1. /\ context.bootstrap.sessionH
          /\ context' = [context EXCEPT !.bootstrap.status = "BS_FINISHING"]
          /\ awake' = TRUE /\ sleep' = 0 /\ objects' = objects
          /\ previousState' = previousState /\ backup' = backup /\ over' = over
          /\ calls' = calls /\ commands' = commands
        BY <1>5 DEF HandleFinish, Handled, application, bounds
    <2>2. context.bootstrap \in BootstrapRecords
        BY <1>1, FieldTypes
    <2>3. /\ b \in BootstrapRecords /\ b.status \in BsPending
        BY <2>2 DEF BootstrapRecords, BsStatuses, BsPending
    <2>4. context' = d
        BY <2>1
    <2>. HIDE DEF b
    <2>5. d \in Sound /\ Steady(context, d) /\ d.timeout = context.timeout
        BY <1>1, <2>1, <2>3, Replies
    <2>. HIDE DEF d
    <2>6. sleep' \in 0..MaxSleep
        BY <2>1, ConstantsAssumption
    <2>7. ClientTypeOK'
        BY <2>1, <2>4, <2>5, <2>6 DEF Inv, ClientTypeOK, Sound
    <2>8. (context \in Sound)'
        BY <2>1, <2>4, <2>5, SoundAfter
    <2>9. QED
        BY <2>1, <2>4, <2>5, <2>7, <2>8, SteadyStill DEF Calm, Inv
<1>6. QED
    BY <1>2, <1>3, <1>4, <1>5

-----------------------------------------------------------------------------
(* Client: seconds, answers and steps *)

\* What a second does to a server: the count of its lifetime goes on, and the time
\* to its update goes down with it.
LEMMA AgedFacts ==
    ASSUME NEW x \in ServerRecords
    PROVE  LET y == Aged(x)
           IN  /\ y \in ServerRecords /\ y.status = x.status /\ y.dirty = x.dirty
               /\ y.attempt = x.attempt /\ y.sequence = x.sequence
               /\ y.tries = x.tries /\ y.location = x.location
               /\ y.lifetime = x.lifetime /\ y.made = x.made
               /\ y.rewritten = x.rewritten /\ y.astray = x.astray /\ y.changed = x.changed
               /\ x.left > 0 => y.left = x.left - 1
               /\ x.left = 0 => y.left = 0
               /\ x.status \in Registered => y.age \in {x.age, x.age + 1}
<1>1. x.left \in Nat /\ x.age \in Nat /\ x.status \in ServerStatuses /\ x.lifetime \in Nat
    BY DEF ServerRecords
<1>2. Less(x.left) \in Nat /\ (x.left > 0 => Less(x.left) = x.left - 1) /\ (x.left = 0 => Less(x.left) = 0)
    BY <1>1 DEF Less
<1>3. Older(x) \in Nat /\ (x.status \in Registered => Older(x) \in {x.age, x.age + 1})
    BY <1>1 DEF Older
<1>4. Aged(x) = [x EXCEPT !.left = Less(x.left), !.age = Older(x)]
    BY DEF Aged
<1>5. QED
    BY <1>2, <1>3, <1>4 DEF ServerRecords

\* A second in select().
LEMMA TickKeeps ==
    ASSUME Inv, Tick
    PROVE  /\ Inv' /\ over = "no" /\ over' = over /\ previousState' = previousState
           /\ sleep \in Nat \ {0} /\ sleep' = sleep - 1
           /\ \A s \in Servers : context'.server[s] = Aged(context.server[s])
<1> DEFINE c == context
           X == [s \in Servers |-> Aged(c.server[s])]
           q == [k \in DOMAIN c.transactionList |-> Waited(c.transactionList[k])]
           b == [c.bootstrap EXCEPT !.left = Less(c.bootstrap.left)]
           d == context'
<1>1. /\ d = [c EXCEPT !.bootstrap = b, !.server = X, !.transactionList = q]
      /\ sleep' = sleep - 1 /\ awake' = (sleep' = 0) /\ over = "no" /\ ~awake
      /\ objects' = objects /\ previousState' = previousState /\ backup' = backup /\ over' = over
      /\ calls' = calls /\ commands' = commands
    BY DEF Tick, Running, application, bounds, Inv, Sound, Contexts
<1>2. c \in Contexts /\ c \in Sound
    BY DEF Inv, Sound
<1>3. \A s \in Servers : c.server[s] \in ServerRecords
    BY <1>2, FieldTypes
<1>4. /\ \A s \in Servers :
            /\ X[s] \in ServerRecords /\ X[s].status = c.server[s].status
            /\ X[s].dirty = c.server[s].dirty /\ X[s].attempt = c.server[s].attempt
            /\ X[s].sequence = c.server[s].sequence /\ X[s].tries = c.server[s].tries
            /\ X[s].location = c.server[s].location
            /\ X[s].lifetime = c.server[s].lifetime /\ X[s].made = c.server[s].made
            /\ X[s].rewritten = c.server[s].rewritten /\ X[s].astray = c.server[s].astray
      /\ X \in [Servers -> ServerRecords]
    BY <1>3, AgedFacts
<1>5. b \in BootstrapRecords /\ b.status = c.bootstrap.status /\ b.sessionH = c.bootstrap.sessionH
    <2>1. c.bootstrap \in BootstrapRecords /\ c.bootstrap.left \in Nat
        BY <1>2, FieldTypes
    <2>2. Less(c.bootstrap.left) \in Nat
        BY <2>1 DEF Less
    <2>3. QED
        BY <2>1, <2>2 DEF BootstrapRecords
<1>6. q \in Seq(Requests)
    <2>1. c.transactionList \in Seq(Requests)
        BY <1>2, FieldTypes
    <2>2. c.transactionList \in [1..Len(c.transactionList) -> Requests] /\ Len(c.transactionList) \in Nat
        BY <2>1, LenProperties
    <2>3. ASSUME NEW r \in Requests PROVE Waited(r) \in Requests
        <3>1. r.left \in 0..COAP_MAX_TRANSMIT_WAIT
            BY RequestTypes
        <3>2. Less(r.left) \in 0..COAP_MAX_TRANSMIT_WAIT
            BY <3>1, ConstantsAssumption DEF Less
        <3>3. Waited(r) = [r EXCEPT !.left = Less(r.left)]
            BY DEF Waited
        <3>4. QED
            BY <3>2, <3>3 DEF Requests
    <2>4. q \in [1..Len(c.transactionList) -> Requests]
        BY <2>2, <2>3
    <2>5. QED
        BY <2>2, <2>4, SeqDef
<1>. HIDE DEF X, q, b
<1>7. /\ d \in Contexts /\ d.state = c.state /\ d.server = X /\ d.bootstrap = b /\ d.timeout = c.timeout
    BY <1>1, <1>2, <1>4, <1>5, <1>6 DEF Contexts
<1>. HIDE DEF d
<1>8. SessionOK(d) /\ Cleaned(d) /\ Made(d) /\ Held
    BY <1>2, <1>4, <1>5, <1>7 DEF Sound, SessionOK, Cleaned, Made, Origin
<1>9. ASSUME NEW s \in Servers PROVE CountOK(d.server[s], Config[s])
    <2>1. CountOK(c.server[s], Config[s])
        BY <1>2 DEF Sound, Counted
    <2>2. QED
        BY <1>4, <1>7, <2>1 DEF CountOK
<1>10. d \in Sound
    BY <1>7, <1>8, <1>9 DEF Sound, Counted
<1>11. sleep \in Nat \ {0} /\ sleep' \in 0..MaxSleep
    <2>1. sleep \in 0..MaxSleep /\ (awake <=> sleep = 0)
        BY DEF Inv, ClientTypeOK
    <2>2. sleep # 0
        BY <1>1, <2>1, Zenon
    <2>3. QED
        BY <1>1, <2>1, <2>2, ConstantsAssumption
<1>12. ClientTypeOK'
    BY <1>1, <1>7, <1>11 DEF Inv, ClientTypeOK, d
<1>13. (context \in Sound)'
    BY <1>1, <1>10, SoundAfter DEF d
<1>14. QED
    BY <1>1, <1>7, <1>11, <1>12, <1>13 DEF Inv, d, X

\* An answer: the server it registers has counted no more than Latency.
LEMMA AnswerKeeps ==
    ASSUME Inv, Answer
    PROVE  /\ Inv' /\ over' = over /\ previousState' = previousState
           /\ sleep' = 0
           /\ \E r \in Requests :
                r.left >= COAP_MAX_TRANSMIT_WAIT - Latency /\ Accepts(context, context', r)
<1>1. PICK k \in DOMAIN context.transactionList, answer \in {"ok", "error"} :
        LET r == context.transactionList[k]
        IN  /\ r.left >= COAP_MAX_TRANSMIT_WAIT - Latency
            /\ Handled(HandleReply([context EXCEPT !.transactionList = RemoveAt(context.transactionList, k)],
                                   r, answer))
    BY DEF Answer
<1> DEFINE q == context.transactionList
           r == q[k]
           c == [context EXCEPT !.transactionList = RemoveAt(q, k)]
           e == HandleReply(c, r, answer)
<1>2. context \in Contexts /\ context \in Sound /\ q \in Seq(Requests)
    BY FieldTypes DEF Inv, Sound
<1>3. q \in [1..Len(q) -> Requests] /\ Len(q) \in Nat /\ DOMAIN q = 1..Len(q)
    BY <1>2, LenProperties
<1>4. k \in 1..Len(q) /\ r \in Requests
    BY <1>3
<1>5. RemoveAt(q, k) \in Seq(Requests)
    <2>1. \A i \in 1..(k - 1) : i \in 1..Len(q)
        BY <1>3, <1>4
    <2>2. \A i \in (k + 1)..Len(q) : i \in 1..Len(q)
        BY <1>3, <1>4
    <2>3. SubSeq(q, 1, k - 1) \in Seq(Requests)
        BY <1>2, <1>3, <1>4, <2>1, SubSeqProperties
    <2>4. SubSeq(q, k + 1, Len(q)) \in Seq(Requests)
        BY <1>2, <1>3, <1>4, <2>2, SubSeqProperties
    <2>5. QED
        BY <2>3, <2>4, ConcatProperties DEF RemoveAt
<1>6. /\ c \in Contexts /\ c.state = context.state /\ c.server = context.server
      /\ c.bootstrap = context.bootstrap /\ c.timeout = context.timeout
    BY <1>2, <1>5 DEF Contexts
<1>7. c \in Sound
    BY <1>2, <1>6, SameSound
<1>8. /\ context' = e /\ awake' = TRUE /\ sleep' = 0 /\ objects' = objects
      /\ previousState' = previousState /\ backup' = backup /\ over' = over
      /\ calls' = calls /\ commands' = commands
    BY <1>1 DEF Answer, Handled, application, bounds
<1>. HIDE DEF c
<1>9. e \in Sound /\ Accepts(c, e, r) /\ e.timeout = c.timeout
    BY <1>4, <1>7, ReplyFacts DEF Answers
<1>. HIDE DEF e
<1>10. Accepts(context, e, r)
    BY <1>6, <1>9 DEF Accepts
<1>11. sleep' \in 0..MaxSleep
    BY <1>8, ConstantsAssumption
<1>12. ClientTypeOK'
    BY <1>6, <1>8, <1>9, <1>11 DEF Inv, ClientTypeOK, Sound
<1>13. (context \in Sound)'
    BY <1>8, <1>9, SoundAfter
<1>14. QED
    BY <1>1, <1>4, <1>8, <1>10, <1>12, <1>13 DEF Inv

\* A restore of the objects leaves the servers as they are, but for marks.
SameButMarks(c, d) ==
    \A s \in Servers :
        LET x == c.server[s]
            y == d.server[s]
        IN  /\ y.status = x.status /\ y.location = x.location /\ y.attempt = x.attempt
            /\ y.sequence = x.sequence /\ y.tries = x.tries /\ y.dirty = x.dirty
            /\ y.lifetime = x.lifetime /\ y.made = x.made /\ y.left = x.left /\ y.age = x.age
            /\ y.changed = x.changed

\* prv_restore_objects marks whose account it changes, and who was made from what
\* it takes back.
LEMMA RestoredFacts ==
    ASSUME NEW c \in Contexts
    PROVE  LET d == Restored(c)
           IN  /\ d \in Contexts /\ d.state = "INITIAL" /\ d.bootstrap = c.bootstrap
               /\ d.timeout = c.timeout /\ SameButMarks(c, d)
               /\ \A s \in Servers :
                    /\ ~d.server[s].rewritten =>
                            ~c.server[s].rewritten /\ backup.account[s] = Config[s]
                    /\ ~d.server[s].astray =>
                            ~c.server[s].astray /\ ~(c.server[s].made > backup.written[s])
<1> DEFINE r == Reread(c, backup)
           A(s) == r.server[s].astray \/ c.server[s].made > backup.written[s]
           X == [s \in Servers |-> [r.server[s] EXCEPT !.astray = A(s)]]
           d == Restored(c)
<1>1. /\ r \in Contexts /\ r.state = c.state /\ r.bootstrap = c.bootstrap
      /\ r.timeout = c.timeout
      /\ \A s \in Servers : r.server[s] = Remarked(c.server[s], backup, s)
    BY RereadFacts
<1>2. d = [r EXCEPT !.state = "INITIAL", !.server = X]
    BY DEF Restored
<1>. HIDE DEF r
<1>3. ASSUME NEW s \in Servers
      PROVE  LET x == c.server[s]
                 y == X[s]
             IN  /\ y \in ServerRecords
                 /\ y.status = x.status /\ y.location = x.location /\ y.attempt = x.attempt
                 /\ y.sequence = x.sequence /\ y.tries = x.tries /\ y.dirty = x.dirty
                 /\ y.lifetime = x.lifetime /\ y.made = x.made /\ y.left = x.left /\ y.age = x.age
                 /\ y.changed = x.changed
                 /\ ~y.rewritten => ~x.rewritten /\ backup.account[s] = Config[s]
                 /\ ~y.astray => ~x.astray /\ ~(x.made > backup.written[s])
    <2>1. c.server[s] \in ServerRecords /\ r.server[s] \in ServerRecords
        BY <1>1, FieldTypes
    <2>2. A(s) \in BOOLEAN
        OBVIOUS
    <2>3. A(s) = FALSE => ~r.server[s].astray /\ ~(c.server[s].made > backup.written[s])
        OBVIOUS
    <2>4. X[s] = [r.server[s] EXCEPT !.astray = A(s)]
        OBVIOUS
    <2>. HIDE DEF A, X
    <2>5. /\ X[s] \in ServerRecords /\ X[s].astray = A(s)
          /\ X[s].rewritten = r.server[s].rewritten
          /\ X[s].status = r.server[s].status /\ X[s].location = r.server[s].location
          /\ X[s].attempt = r.server[s].attempt /\ X[s].sequence = r.server[s].sequence
          /\ X[s].tries = r.server[s].tries /\ X[s].dirty = r.server[s].dirty
          /\ X[s].lifetime = r.server[s].lifetime /\ X[s].made = r.server[s].made
          /\ X[s].left = r.server[s].left /\ X[s].age = r.server[s].age
          /\ X[s].changed = r.server[s].changed
        BY <2>1, <2>2, <2>4 DEF ServerRecords
    <2>6. LET x == c.server[s]
              y == r.server[s]
          IN  /\ y.status = x.status /\ y.location = x.location /\ y.attempt = x.attempt
              /\ y.sequence = x.sequence /\ y.tries = x.tries /\ y.dirty = x.dirty
              /\ y.lifetime = x.lifetime /\ y.made = x.made /\ y.left = x.left /\ y.age = x.age
              /\ y.astray = x.astray /\ y.changed = x.changed
              /\ ~y.rewritten => ~x.rewritten /\ backup.account[s] = Config[s]
        BY <1>1, <2>1 DEF ServerRecords, Remarked
    <2>7. X[s].astray \in BOOLEAN
        BY <2>5 DEF ServerRecords
    <2>8. ~X[s].astray => ~c.server[s].astray /\ ~(c.server[s].made > backup.written[s])
        BY <2>2, <2>3, <2>5, <2>6, <2>7
    <2>9. QED
        BY <2>5, <2>6, <2>8
<1>4. X \in [Servers -> ServerRecords]
    BY <1>3
<1>. HIDE DEF X, d
<1>5. /\ d \in Contexts /\ d.state = "INITIAL" /\ d.server = X /\ d.bootstrap = r.bootstrap
      /\ d.timeout = r.timeout
    BY <1>1, <1>2, <1>4 DEF Contexts, States
<1>6. QED
    BY <1>1, <1>3, <1>5 DEF SameButMarks, d

\* The objects are restored, and the context stays sound: a server that was made from
\* an instance that is taken back is marked.
LEMMA RestoredSound ==
    ASSUME NEW c \in Sound, ~c.bootstrap.sessionH, previousState = "BOOTSTRAPPING",
           objects' = backup, backup' = backup, previousState' # "BOOTSTRAPPING",
           context' \in Contexts, context'.state = "INITIAL", context'.bootstrap = c.bootstrap,
           context'.server = Restored(c).server
    PROVE  (context \in Sound)'
<1>1. c \in Contexts /\ Held /\ \A s \in Servers : Grown(s)
    BY DEF Sound, Held
<1>2. /\ SameButMarks(c, context')
      /\ \A s \in Servers :
            /\ ~context'.server[s].rewritten =>
                    ~c.server[s].rewritten /\ objects'.account[s] = Config[s]
            /\ ~context'.server[s].astray =>
                    ~c.server[s].astray /\ ~(c.server[s].made > objects'.written[s])
    BY <1>1, RestoredFacts DEF SameButMarks
<1>3. Held'
    BY <1>1 DEF Held
<1>4. SessionOK(context') /\ Cleaned(context')
    BY DEF SessionOK, Cleaned
<1>5. ASSUME NEW s \in Servers PROVE CountOK(context'.server[s], objects'.account[s])
    <2>1. CountOK(c.server[s], Config[s]) /\ c.server[s] \in ServerRecords
        BY <1>1, FieldTypes DEF Sound, Counted
    <2>2. QED
        BY <1>2, <2>1, Marked DEF SameButMarks
<1>6. ASSUME NEW s \in Servers PROVE Origin(context.server[s], s)'
    <2>1. Origin(c.server[s], s) /\ Grown(s)
        BY <1>1 DEF Sound, Made
    <2>2. /\ objects.written[s] \in Nat /\ backup.written[s] \in Nat
        BY <1>1, ServerIds DEF Held, Objects
    <2>3. QED
        BY <1>2, <2>1, <2>2 DEF Origin, Grown, SameButMarks
<1>7. QED
    BY <1>3, <1>4, <1>5, <1>6 DEF Sound, SessionOK, Cleaned, Counted, Made, Config

\* The objects stay, and the backup is taken when a bootstrap begins.
LEMMA BackedUpSound ==
    ASSUME context' \in Sound, objects' = objects,
           backup' = IF previousState' = "BOOTSTRAPPING" /\ previousState # "BOOTSTRAPPING"
                     THEN objects ELSE backup
    PROVE  (context \in Sound)'
<1>1. Held
    BY DEF Sound
<1>2. Held'
    <2>1. backup' \in Objects
        BY <1>1 DEF Held
    <2>2. ASSUME previousState' = "BOOTSTRAPPING", NEW s \in Servers PROVE Grown(s)'
        BY <1>1, <2>2 DEF Held, Grown
    <2>3. QED
        BY <1>1, <2>1, <2>2 DEF Held
<1>3. \A s \in Servers : Config'[s] = Config[s]
    BY DEF Config
<1>4. QED
    BY <1>2, <1>3 DEF Sound, SessionOK, Cleaned, Counted, Made, Origin

\* What a step does: it fails, before anything else, or goes through all.
LEMMA StepKeeps ==
    ASSUME Inv, NEW reach, StepReaching(reach)
    PROVE  /\ Inv' /\ over = "no" /\ sleep = 0
           /\ \E c \in Sound :
                /\ SteadyButFreed(context, c)
                /\ \/ over' = "exit" /\ SameButMarks(c, context')
                   \/ /\ over' = "no" /\ previousState = "BOOTSTRAPPING" /\ previousState' = "INITIAL"
                      /\ SameButMarks(c, context')
                   \/ /\ over' = "no"
                      /\ \E m \in Sound : Steady(c, m) /\ Follows(m, context')
                      /\ \A s \in Servers : context'.server[s].status = "REGISTERED" =>
                            context'.server[s].left > 0 /\ sleep' <= context'.server[s].left
<1> DEFINE b == [context EXCEPT !.timeout = MaxSleep]
           c == Settle(b, objects)
           m == RegistrationStep(Advance(c, reach), reach)
           d == IF Restores(c) THEN Restored(c) ELSE IF Fails(c) THEN c ELSE TransactionStep(m)
           slept == \E t \in IF Fails(c) \/ d.transactionList = <<>> THEN {d.timeout} ELSE 0..d.timeout :
                        /\ t = 0 => d.timeout = 0
                        /\ sleep' = t
                        /\ awake' = (t = 0)
<1>1. /\ over = "no" /\ awake
      /\ context' = [d EXCEPT !.timeout = 0]
      /\ objects' = IF Restores(c) THEN backup ELSE objects
      /\ over' = IF Fails(c) /\ ~Restores(c) THEN "exit" ELSE "no"
      /\ previousState' = d.state
      /\ backup' = IF d.state = "BOOTSTRAPPING" /\ previousState # "BOOTSTRAPPING"
                   THEN objects ELSE backup
      /\ slept
      /\ calls' = calls /\ commands' = commands
    BY DEF StepReaching, Running, bounds
<1>2. b \in Sound /\ b.server = context.server
    <2>1. context \in Contexts /\ context \in Sound
        BY DEF Inv, Sound
    <2>2. MaxSleep \in 0..MaxSleep
        BY ConstantsAssumption
    <2>3. b \in Contexts /\ b.state = context.state /\ b.server = context.server /\ b.bootstrap = context.bootstrap
        BY <2>1, <2>2 DEF Contexts
    <2>4. QED
        BY <2>1, <2>3, SameSound
<1>. HIDE DEF b
<1>3. c \in Sound /\ c \in Contexts /\ SteadyButFreed(context, c)
    BY <1>2, SettleFacts DEF Sound, SteadyButFreed
<1>. HIDE DEF c
<1>4. /\ d \in Contexts /\ (~Restores(c) => d \in Sound)
      /\ Fails(c) => ~c.bootstrap.sessionH /\ SameButMarks(c, d)
      /\ Restores(c) => /\ Fails(c) /\ d.state = "INITIAL" /\ previousState = "BOOTSTRAPPING"
                        /\ d.bootstrap = c.bootstrap /\ d.server = Restored(c).server
      /\ ~Fails(c) => /\ \E n \in Sound : Steady(c, n) /\ Follows(n, d)
                      /\ \A s \in Servers : Tended(d, s)
    <2>1. CASE Fails(c)
        <3>1. ~c.bootstrap.sessionH
            BY <1>3, <2>1 DEF Fails, Sound, SessionOK, BsPending
        <3>2. CASE Restores(c)
            <4>1. d = Restored(c)
                BY <3>2
            <4>. HIDE DEF d
            <4>2. /\ d \in Contexts /\ d.state = "INITIAL" /\ d.bootstrap = c.bootstrap
                  /\ SameButMarks(c, d)
                BY <1>3, <4>1, RestoredFacts
            <4>3. QED
                BY <2>1, <3>1, <3>2, <4>1, <4>2 DEF Restores
        <3>3. CASE ~Restores(c)
            <4>1. d = c
                BY <2>1, <3>3
            <4>2. SameButMarks(c, c)
                BY DEF SameButMarks
            <4>3. QED
                BY <1>3, <2>1, <3>1, <3>3, <4>1, <4>2
        <3>4. QED
            BY <3>2, <3>3
    <2>2. CASE ~Fails(c)
        <3>1. ~Restores(c) /\ d = TransactionStep(m)
            BY <2>2 DEF Restores
        <3>2. Advance(c, reach) \in Sound /\ Steady(c, Advance(c, reach))
            BY <1>3, <2>2, AdvanceFacts
        <3>3. /\ m \in Sound /\ Steady(Advance(c, reach), m)
              /\ \A s \in Servers : Tended(m, s)
            BY <3>2, RegistrationStepFacts
        <3>4. Steady(c, m)
            BY <3>2, <3>3, SteadyTrans
        <3>. HIDE DEF m
        <3>5. /\ d \in Sound /\ Follows(m, d) /\ \A s \in Servers : Tended(d, s)
            BY <3>1, <3>3, TransactionStepFacts
        <3>6. QED
            BY <2>2, <3>1, <3>3, <3>4, <3>5 DEF Sound
    <2>3. QED
        BY <2>1, <2>2
<1>. HIDE DEF d
<1>5. d \in Contexts /\ d.timeout \in Nat /\ d.timeout <= MaxSleep /\ d.state \in States
    BY <1>4, FieldTypes
<1>6. sleep' \in 0..MaxSleep /\ sleep' <= d.timeout /\ awake' = (sleep' = 0)
    <2>1. PICK t \in 0..d.timeout : sleep' = t /\ awake' = (t = 0)
        BY <1>1, <1>5
    <2>2. QED
        BY <1>5, <2>1, ConstantsAssumption
<1>7. /\ context' \in Contexts /\ context'.timeout = 0 /\ context'.server = d.server
      /\ context'.state = d.state /\ context'.bootstrap = d.bootstrap
    <2>1. 0 \in 0..MaxSleep
        BY ConstantsAssumption
    <2>2. QED
        BY <1>1, <1>5, <2>1 DEF Contexts
<1>8. (context \in Sound)'
    <2>1. CASE Restores(c)
        <3>1. /\ objects' = backup /\ backup' = backup /\ previousState' = "INITIAL"
              /\ context'.state = "INITIAL" /\ context'.bootstrap = c.bootstrap
              /\ context'.server = Restored(c).server
            BY <1>1, <1>4, <1>7, <2>1
        <3>2. QED
            BY <1>3, <1>4, <1>7, <2>1, <3>1, RestoredSound
    <2>2. CASE ~Restores(c)
        <3>1. context' \in Sound
            BY <1>4, <1>7, <2>2, SameSound
        <3>2. QED
            BY <1>1, <2>2, <3>1, BackedUpSound
    <2>3. QED
        BY <2>1, <2>2
<1>9. ClientTypeOK'
    <2>1. objects \in Objects /\ backup \in Objects
        BY DEF Inv, ClientTypeOK
    <2>2. objects' \in Objects /\ backup' \in Objects /\ over' \in {"no", "exit", "closed"}
        BY <1>1, <2>1
    <2>3. calls' \in 0..MaxCalls /\ commands' \in 0..MaxCommands /\ previousState' \in States
        BY <1>1, <1>5 DEF Inv, ClientTypeOK
    <2>4. awake' \in BOOLEAN
        BY <1>6
    <2>5. QED
        BY <1>6, <1>7, <2>2, <2>3, <2>4 DEF ClientTypeOK
<1>10. sleep = 0
    <2>1. awake <=> sleep = 0
        BY DEF Inv, ClientTypeOK
    <2>2. QED
        BY <1>1, <2>1, Zenon
<1>11. ASSUME ~Fails(c)
       PROVE  /\ \E n \in Sound : Steady(c, n) /\ Follows(n, context')
              /\ \A s \in Servers : context'.server[s].status = "REGISTERED" =>
                    context'.server[s].left > 0 /\ sleep' <= context'.server[s].left
    <2>1. PICK n \in Sound : Steady(c, n) /\ Follows(n, d)
        BY <1>4, <1>11
    <2>2. Follows(n, context')
        BY <1>7, <2>1 DEF Follows
    <2>3. ASSUME NEW s \in Servers, d.server[s].status = "REGISTERED"
          PROVE  d.server[s].left > 0 /\ sleep' <= d.server[s].left
        <3>1. d.server[s].left \in Nat /\ d.server[s].left > 0 /\ d.timeout <= d.server[s].left
            BY <1>4, <1>5, <1>11, <2>3, FieldTypes DEF Tended
        <3>2. QED
            BY <1>5, <1>6, <3>1, ConstantsAssumption
    <2>4. QED
        BY <1>7, <2>1, <2>2, <2>3
<1>12. Fails(c) => SameButMarks(c, context')
    BY <1>4, <1>7 DEF SameButMarks
<1>13. QED
    <2>1. CASE Fails(c) /\ Restores(c)
        BY <1>1, <1>3, <1>4, <1>8, <1>9, <1>10, <1>12, <2>1 DEF Inv
    <2>2. CASE Fails(c) /\ ~Restores(c)
        BY <1>1, <1>3, <1>8, <1>9, <1>10, <1>12, <2>2 DEF Inv
    <2>3. CASE ~Fails(c)
        BY <1>1, <1>3, <1>8, <1>9, <1>10, <1>11, <2>3 DEF Inv
    <2>4. QED
        BY <2>1, <2>2, <2>3

-----------------------------------------------------------------------------
(* Client: types and tagged servers *)

\* The invariant holds when the program starts.
LEMMA InvInit == ClientInit => Inv
<1>. SUFFICES ASSUME ClientInit PROVE Inv
    OBVIOUS
<1>1. /\ NoServer \in ServerRecords /\ NoServer.status = "none" /\ NoServer.location = FALSE
      /\ NoBootstrap \in BootstrapRecords /\ NoBootstrap.sessionH = FALSE
    BY DEF NoServer, NoBootstrap, NewBootstrap, ServerRecords, BootstrapRecords,
           ServerStatuses, BsStatuses
<1>2. /\ context.state = "INITIAL" /\ context.bootstrap = NoBootstrap /\ context.timeout = 0
      /\ \A s \in Servers : context.server[s] = NoServer
    BY DEF ClientInit
<1>3. context \in Contexts
    <2>1. 0 \in 0..MaxSleep /\ <<>> \in Seq(Requests)
        BY ConstantsAssumption, EmptySeq
    <2>2. QED
        BY <1>1, <2>1 DEF ClientInit, Contexts, States
<1>4. SessionOK(context) /\ Cleaned(context) /\ Counted(context) /\ Made(context)
    BY <1>1, <1>2 DEF SessionOK, Cleaned, Counted, CountOK, Made, Origin
<1>5. /\ objects \in Objects /\ backup \in Objects /\ sleep = 0 /\ sleep \in 0..MaxSleep
      /\ calls \in 0..MaxCalls /\ commands \in 0..MaxCommands
    BY ConstantsAssumption DEF ClientInit
<1>6. ClientTypeOK
    BY <1>2, <1>3, <1>5 DEF ClientInit, ClientTypeOK, States
<1>7. Held
    BY <1>5 DEF ClientInit, Held
<1>8. QED
    BY <1>3, <1>4, <1>6, <1>7 DEF Inv, Sound

\* lwm2m_close
LEMMA CloseKeeps ==
    ASSUME Inv, Close
    PROVE  Inv' /\ over' = "closed" /\ context' = context
<1>1. /\ over' = "closed" /\ context' = context /\ objects' = objects /\ awake' = awake
      /\ sleep' = sleep /\ previousState' = previousState /\ backup' = backup
      /\ calls' = calls /\ commands' = commands
    BY DEF Close, bounds
<1>2. ClientTypeOK'
    BY <1>1 DEF Inv, ClientTypeOK
<1>3. (context \in Sound)'
    BY <1>1, SoundAfter DEF Inv
<1>4. QED
    BY <1>1, <1>2, <1>3 DEF Inv

\* Nothing happens.
LEMMA SameKeeps ==
    ASSUME Inv, UNCHANGED clientVars
    PROVE  /\ Inv' /\ over' = over /\ context' = context /\ sleep' = sleep
           /\ previousState' = previousState
<1>1. /\ over' = over /\ context' = context /\ objects' = objects /\ awake' = awake
      /\ sleep' = sleep /\ previousState' = previousState /\ backup' = backup
      /\ calls' = calls /\ commands' = commands
    BY DEF clientVars, application, bounds
<1>2. ClientTypeOK'
    BY <1>1 DEF Inv, ClientTypeOK
<1>3. (context \in Sound)'
    BY <1>1, SoundAfter DEF Inv
<1>4. QED
    BY <1>1, <1>2, <1>3 DEF Inv

\* Packets and calls but answers keep the invariant.
LEMMA CalmKeeps ==
    ASSUME Inv,
           \/ PutSecurity \/ PutServer \/ LoseServer \/ DeleteServer
           \/ DeleteSecurity \/ DeleteSecurityObject \/ HandleDeleteAll \/ OtherCommand
           \/ HandleFinish
           \/ UpdateOne \/ UpdateAll \/ Deregister
    PROVE  Inv' /\ Calm
BY CommandsKeep, CallsKeep

\* Every step keeps the invariant.
LEMMA InvNext == Inv /\ [ClientNext]_clientVars => Inv'
<1>. SUFFICES ASSUME Inv, [ClientNext]_clientVars PROVE Inv'
    OBVIOUS
<1>1. CASE Step
    BY <1>1, StepKeeps DEF Step
<1>2. CASE Tick
    BY <1>2, TickKeeps
<1>3. CASE Answer
    BY <1>3, AnswerKeeps
<1>4. CASE Close
    BY <1>4, CloseKeeps
<1>5. CASE UNCHANGED clientVars
    BY <1>5, SameKeeps
<1>6. QED
    BY <1>1, <1>2, <1>3, <1>4, <1>5, CalmKeeps DEF ClientNext

\* Types, and sound contexts, whatever the instances, the timings and the packets.
THEOREM ClientInv == SafeSpec => []Inv
BY InvInit, InvNext, PTL DEF SafeSpec

\* The context, the objects and the loop have their types, and the loop sleeps when
\* it is not awake.
THEOREM ClientTypeCorrect == SafeSpec => []ClientTypeOK
<1>1. Inv => ClientTypeOK
    BY DEF Inv
<1>2. QED
    BY <1>1, ClientInv, PTL

\* Once a bootstrap is over, whom the client registers with, or is registered with,
\* was made from its instance of the Security Object as that is now: a bootstrap has
\* tagged whom it has rewritten or deleted (prv_tagServer), and prv_refreshServerList
\* has freed them.  But for those made during a bootstrap that has failed.
THEOREM ClientNoStaleServer == SafeSpec => []NoStaleServer
<1>1. Inv => NoStaleServer
    BY DEF Inv, Sound, Cleaned, Made, Origin, Listed, NoStaleServer
<1>2. QED
    BY <1>1, ClientInv, PTL

-----------------------------------------------------------------------------
(* Client: attempts *)

\* Server s is given up after as many requests as its instance asks for.
Spent(s) ==
    /\ context.server[s].status = "REG_PENDING" /\ ~context.server[s].dirty
    /\ context'.server[s].status = "REG_FAILED"
    => LET f == objects.account[s]
           x == context'.server[s]
       IN  /\ x.tries + 1 >= f.attempts + f.sequences
           /\ ~context.server[s].rewritten => x.tries = f.attempts * f.sequences

\* No step gives up a registration before.
LEMMA StepSpends ==
    ASSUME Inv, [ClientNext]_clientVars, NEW s \in Servers
    PROVE  Spent(s)
<1> DEFINE x == context.server[s]
           y == context'.server[s]
<1>1. x \in ServerRecords /\ (x.status = "REG_PENDING" => Pursued(x, Config[s]))
    BY FieldTypes DEF Inv, Sound, Pursued
<1>2. ASSUME Pursued(y, Config[s]), y.rewritten => x.rewritten
      PROVE  Spent(s)
    BY <1>2 DEF Spent, Pursued, Config
<1>3. ASSUME x.status = "REG_PENDING", ~x.dirty => y.status # "REG_FAILED"
      PROVE  Spent(s)
    BY <1>3 DEF Spent
<1>4. CASE ~(x.status = "REG_PENDING" /\ ~x.dirty)
    BY <1>4 DEF Spent
<1>5. ASSUME x.status = "REG_PENDING", ~x.dirty
      PROVE  Spent(s)
    <2>. HIDE DEF x, y
    <2>1. CASE Step
        <3>1. PICK reach : StepReaching(reach)
            BY <2>1 DEF Step
        <3>2. PICK c \in Sound :
                /\ SteadyButFreed(context, c)
                /\ \/ SameButMarks(c, context')
                   \/ \E m \in Sound : Steady(c, m) /\ Follows(m, context')
            BY <3>1, StepKeeps
        <3>3. c.server[s].status = "REG_PENDING" /\ (c.server[s].rewritten => x.rewritten)
            BY <1>5, <3>2 DEF SteadyButFreed, x
        <3>4. CASE SameButMarks(c, context')
            <4>1. y.status = "REG_PENDING"
                BY <3>3, <3>4 DEF SameButMarks, y
            <4>2. QED
                BY <1>3, <1>5, <4>1
        <3>5. CASE \E m \in Sound : Steady(c, m) /\ Follows(m, context')
            <4>1. PICK m \in Sound : Steady(c, m) /\ Follows(m, context')
                BY <3>5
            <4>2. Pursued(m.server[s], Config[s]) /\ (m.server[s].rewritten => x.rewritten)
                BY <3>3, <4>1 DEF Steady, Pursued
            <4>3. Pursued(y, Config[s]) /\ (y.rewritten => x.rewritten)
                BY <4>1, <4>2 DEF Follows, y
            <4>4. QED
                BY <1>2, <4>3
        <3>6. QED
            BY <3>2, <3>4, <3>5
    <2>2. CASE Answer
        <3>1. PICK r : Accepts(context, context', r)
            BY <2>2, AnswerKeeps
        <3>2. Pursued(y, Config[s]) /\ (y.rewritten => x.rewritten)
            BY <1>1, <1>5, <3>1 DEF Accepts, x, y
        <3>3. QED
            BY <1>2, <3>2
    <2>3. CASE Tick
        <3>1. y.status = x.status
            BY <1>1, <2>3, TickKeeps, AgedFacts DEF x, y
        <3>2. QED
            BY <1>3, <1>5, <3>1
    <2>4. CASE Close \/ UNCHANGED clientVars
        <3>1. y.status = x.status
            BY <2>4, CloseKeeps, SameKeeps DEF x, y
        <3>2. QED
            BY <1>3, <1>5, <3>1
    <2>5. CASE Calm
        <3>1. y.status = x.status
            BY <1>5, <2>5 DEF Calm, Still, x, y
        <3>2. QED
            BY <1>3, <1>5, <3>1
    <2>6. QED
        BY CalmKeeps, <2>1, <2>2, <2>3, <2>4, <2>5 DEF ClientNext
<1>6. QED
    BY <1>4, <1>5

\* A registration is given up after as many requests as the Server Object asks for,
\* attempts in sequences, whatever other servers, timeouts, a bootstrap or the user do
\* in between (prv_register and the failure handlers); when the instance was rewritten
\* or deleted on the way, after a sequence for each it asks for now, and an attempt for
\* each in the last.
THEOREM ClientFailsWhenSpent == SafeSpec => FailsWhenSpent
<1>1. Inv /\ [ClientNext]_clientVars =>
        [\A s \in Servers :
            /\ context.server[s].status = "REG_PENDING" /\ ~context.server[s].dirty
            /\ context'.server[s].status = "REG_FAILED"
            => LET f == objects.account[s]
                   x == context'.server[s]
               IN  /\ x.tries + 1 >= f.attempts + f.sequences
                   /\ ~context.server[s].rewritten => x.tries = f.attempts * f.sequences]_clientVars
    BY StepSpends DEF Spent
<1>2. QED
    BY <1>1, ClientInv, PTL DEF SafeSpec, FailsWhenSpent

-----------------------------------------------------------------------------
(* The server's count of the lifetime *)

\* How far a server may have counted when its update is due.
Limit(x) == Latency + NextUpdate(x.lifetime)

\* How far the server's count is when the client takes itself for registered,
\* before the next step and after a bootstrap that has failed.
AliveAt(x, slp, prev, ovr) ==
    x.status = "REGISTERED" /\ ~x.changed =>
        /\ x.age <= Limit(x) + MaxSleep
        /\ x.left > 0 => x.age + x.left <= Limit(x)
        /\ ovr = "no" =>
            \/ x.age + x.left <= Limit(x) /\ slp <= x.left
            \/ prev = "INITIAL" /\ x.age + slp <= Limit(x) + MaxSleep

\* Every server the client takes itself for registered with is alive.
Alive == \A s \in Servers : AliveAt(context.server[s], sleep, previousState, over)

\* Times are numbers.
LEMMA LimitTypes ==
    ASSUME NEW x \in ServerRecords
    PROVE  Limit(x) \in Nat /\ NextUpdate(x.lifetime) \in Nat /\ Latency \in Nat /\ MaxSleep \in Nat
BY NextUpdateType, ConstantsAssumption DEF Limit, ServerRecords

\* Every step keeps registered servers alive: a step because registration_step has
\* the loop wake in time, or nothing was registered when it failed; a second
\* because both counts go together; an answer because it came within Latency.
LEMMA AliveNext ==
    ASSUME Inv, Inv', Alive, [ClientNext]_clientVars
    PROVE  Alive'
<1>. SUFFICES ASSUME NEW s \in Servers, context'.server[s].status = "REGISTERED",
                     ~context'.server[s].changed
              PROVE  AliveAt(context'.server[s], sleep', previousState', over')
    BY DEF Alive, AliveAt
<1> DEFINE x == context.server[s]
           y == context'.server[s]
           L == Limit(x)
           V == MaxSleep
<1>. SUFFICES AliveAt(y, sleep', previousState', over')
    OBVIOUS
<1>1. /\ x \in ServerRecords /\ x.left \in Nat /\ x.age \in Nat
      /\ y \in ServerRecords /\ y.left \in Nat /\ y.age \in Nat
      /\ L \in Nat /\ V \in Nat /\ sleep \in Nat /\ sleep' \in Nat /\ MaxSleep \in Nat
    <2>1. context \in Contexts /\ context' \in Contexts
        BY DEF Inv, Sound
    <2>2. sleep \in Nat /\ sleep' \in Nat /\ MaxSleep \in Nat
        BY ConstantsAssumption DEF Inv, ClientTypeOK
    <2>3. QED
        BY <2>1, <2>2, FieldTypes, LimitTypes
<1>2. AliveAt(x, sleep, previousState, over)
    BY DEF Alive
<1>3. ASSUME x.status = "REGISTERED", ~x.changed, y.left = x.left, y.age = x.age,
             y.lifetime = x.lifetime, sleep' = 0,
             previousState' = previousState, over' = over
      PROVE  AliveAt(y, sleep', previousState', over')
    <2>. HIDE DEF x, y
    <2>. QED
        BY <1>1, <1>2, <1>3 DEF AliveAt, Limit
<1>4. CASE Step
    <2>1. PICK reach : StepReaching(reach)
        BY <1>4 DEF Step
    <2>2. over = "no" /\ sleep = 0
        BY <2>1, StepKeeps
    <2>3. PICK c \in Sound :
            /\ SteadyButFreed(context, c)
            /\ \/ over' = "exit" /\ SameButMarks(c, context')
               \/ /\ over' = "no" /\ previousState = "BOOTSTRAPPING" /\ previousState' = "INITIAL"
                  /\ SameButMarks(c, context')
               \/ /\ over' = "no"
                  /\ \E m \in Sound : Steady(c, m) /\ Follows(m, context')
                  /\ y.left > 0 /\ sleep' <= y.left
        BY <2>1, StepKeeps
    <2>4. /\ x.status = "REGISTERED" /\ ~x.changed
          /\ y.left = x.left /\ y.age = x.age /\ y.lifetime = x.lifetime
        <3>1. /\ c.server[s].status = "REGISTERED" /\ ~c.server[s].changed /\ y.left = c.server[s].left
              /\ y.age = c.server[s].age /\ y.lifetime = c.server[s].lifetime
            BY <2>3 DEF Steady, Follows, SameButMarks
        <3>2. QED
            BY <2>3, <3>1 DEF SteadyButFreed
    <2>5. CASE over' = "exit"
        <3>. HIDE DEF x, y
        <3>. QED
            BY <1>1, <1>2, <2>4, <2>5 DEF AliveAt, Limit
    <2>6. CASE /\ over' = "no" /\ previousState = "BOOTSTRAPPING" /\ previousState' = "INITIAL"
               /\ SameButMarks(c, context')
        <3>1. sleep' <= MaxSleep
            BY ConstantsAssumption DEF Inv, ClientTypeOK
        <3>. HIDE DEF x, y
        <3>2. QED
            BY <1>1, <1>2, <2>2, <2>4, <2>6, <3>1 DEF AliveAt, Limit
    <2>7. CASE over' = "no" /\ y.left > 0 /\ sleep' <= y.left
        <3>. HIDE DEF x, y
        <3>. QED
            BY <1>1, <1>2, <2>2, <2>4, <2>7 DEF AliveAt, Limit
    <2>8. QED
        BY <2>3, <2>5, <2>6, <2>7
<1>5. CASE Tick
    <2>1. /\ over = "no" /\ over' = over /\ previousState' = previousState
          /\ sleep > 0 /\ sleep' = sleep - 1 /\ y = Aged(x)
        BY <1>5, TickKeeps
    <2>2. /\ y.status = x.status /\ (x.left > 0 => y.left = x.left - 1) /\ (x.left = 0 => y.left = 0)
          /\ x.status \in Registered => y.age \in {x.age, x.age + 1}
          /\ y.lifetime = x.lifetime /\ y.changed = x.changed
        BY <1>1, <2>1, AgedFacts
    <2>3. x.status = "REGISTERED" /\ ~x.changed /\ y.age \in {x.age, x.age + 1}
        BY <2>2 DEF Registered
    <2>. HIDE DEF x, y
    <2>4. QED
        BY <1>1, <1>2, <2>1, <2>2, <2>3 DEF AliveAt, Limit
<1>6. CASE Answer
    <2>1. /\ sleep' = 0 /\ previousState' = previousState /\ over' = over
        BY <1>6, AnswerKeeps
    <2>2. PICK r \in Requests :
            r.left >= COAP_MAX_TRANSMIT_WAIT - Latency /\ Accepts(context, context', r)
        BY <1>6, AnswerKeeps
    <2>3. \/ /\ x.status = "REGISTERED" /\ ~x.changed /\ y.left = x.left /\ y.age = x.age
             /\ y.lifetime = x.lifetime
          \/ y.left = NextUpdate(y.lifetime) /\ y.age = COAP_MAX_TRANSMIT_WAIT - r.left
        BY <2>2 DEF Accepts
    <2>4. CASE y.left = NextUpdate(y.lifetime) /\ y.age = COAP_MAX_TRANSMIT_WAIT - r.left
        <3>1. y.age <= Latency
            BY <2>2, <2>4, RequestTypes, ConstantsAssumption
        <3>2. y.age + y.left <= Limit(y) /\ Limit(y) \in Nat
            BY <1>1, <2>4, <3>1, LimitTypes DEF Limit
        <3>. HIDE DEF x, y
        <3>3. QED
            BY <1>1, <2>1, <3>2 DEF AliveAt
    <2>5. QED
        BY <1>3, <2>1, <2>3, <2>4
<1>7. CASE Close
    <2>1. y = x /\ over' = "closed"
        BY <1>7, CloseKeeps
    <2>. HIDE DEF x, y
    <2>2. QED
        BY <1>1, <1>2, <2>1 DEF AliveAt
<1>8. CASE UNCHANGED clientVars
    BY <1>2, <1>8, SameKeeps
<1>9. CASE Calm
    BY <1>3, <1>9 DEF Calm, Still
<1>10. QED
    BY <1>4, <1>5, <1>6, <1>7, <1>8, <1>9, CalmKeeps DEF ClientNext

\* While the client takes itself for registered, the server has not counted the
\* lifetime to its end, and an update sent now arrives before it has: under the
\* condition that the lifetime leaves room for two messages after the update is due
\* and for the sleep after a bootstrap that fails, and but for a server that a bootstrap
\* has given another lifetime than it was told (registration_step, transaction_step,
\* and the loop of main).
THEOREM ClientKnownToServer ==
    ASSUME InTime
    PROVE  SafeSpec => []KnownToServer
<1>1. ClientInit => Alive
    BY DEF ClientInit, Alive, AliveAt, NoServer
<1>2. Inv /\ Inv' /\ Alive /\ [ClientNext]_clientVars => Alive'
    BY AliveNext
<1>3. Inv /\ Alive => KnownToServer
    <2>. SUFFICES ASSUME Inv, Alive, NEW s \in Servers, context.server[s].status = "REGISTERED",
                         ~context.server[s].changed
                  PROVE  context.server[s].age + Latency < context.server[s].lifetime
        BY DEF KnownToServer
    <2> DEFINE x == context.server[s]
    <2>1. x \in ServerRecords /\ x.age \in Nat /\ x.lifetime \in Nat
        BY FieldTypes DEF Inv, Sound
    <2>2. PICK f \in Accounts : x.lifetime = f.lifetime
        BY DEF Inv, Sound, Made, Origin
    <2>3. x.age <= Latency + NextUpdate(x.lifetime) + MaxSleep
        BY DEF Alive, AliveAt, Limit
    <2>4. NextUpdate(x.lifetime) + 2 * Latency + MaxSleep < x.lifetime
        BY <2>2 DEF InTime
    <2>. HIDE DEF x
    <2>5. x.age + Latency < x.lifetime
        BY <2>1, <2>3, <2>4, LimitTypes
    <2>6. QED
        BY <2>5 DEF x
<1>4. QED
    BY <1>1, <1>2, <1>3, ClientInv, PTL DEF SafeSpec
=============================================================================
